---- MODULE Spec2Model ----
(***************************************************************************)
(* A model of the particle physics core of ruty: Point (objects/point.rs), *)
(* Constraint (objects/constraint.rs) and the Gravity, Friction, Force and *)
(* Collision components (basics/*.rs), applied to a pair of Points.        *)
(*                                                                         *)
(* f32 values are IEEE 754 binary32 numbers: a sign, a mantissa of at most *)
(* 24 bits and an exponent, with -0.0, the subnormal numbers, the two      *)
(* infinities and NaN.  Every operation rounds its exact result to the     *)
(* nearest f32, ties to even, as the hardware does.                        *)
(***************************************************************************)
EXTENDS Integers, Sequences, FiniteSets, TLC

\* ------------------------------------------------------------------ bounds

\* Number of operations applied after construction.
MaxSteps == 2

\* Operations are applied while every coordinate of the points is at most
\* MaxNum in absolute value.
MaxNum == 200

\* --------------------------------------------- f32 (IEEE 754 binary32)

\* A finite f32 is s * m * 2^e with the sign s in {1, -1}, the mantissa m odd
\* and below 2^24 and the exponent e in -149..127, or m = 0 and e = 0 for the
\* zeros +0.0 and -0.0.  The infinities carry their sign; there is one NaN.
IAbs(i) == IF i < 0 THEN -i ELSE i

Sgn(i) == IF i < 0 THEN -1 ELSE IF i > 0 THEN 1 ELSE 0

NaN == [k |-> "nan", s |-> 1, m |-> 0, e |-> 0]

Inf(s) == [k |-> "inf", s |-> s, m |-> 0, e |-> 0]

ZeroOf(s) == [k |-> "fin", s |-> s, m |-> 0, e |-> 0]

Zero == ZeroOf(1)

IsNaN(a) == a.k = "nan"

IsFinite(a) == a.k = "fin"

\* The number of bits of x >= 0: the least n with x < 2^n.
RECURSIVE BitLen(_)
BitLen(x) ==
    IF x >= 65536 THEN 16 + BitLen(x \div 65536)
    ELSE IF x >= 256 THEN 8 + BitLen(x \div 256)
    ELSE IF x >= 16 THEN 4 + BitLen(x \div 16)
    ELSE IF x >= 4 THEN 2 + BitLen(x \div 4)
    ELSE IF x >= 2 THEN 2
    ELSE x

\* The number of trailing zero bits of x > 0.
RECURSIVE Twos(_)
Twos(x) ==
    IF x % 65536 = 0 THEN 16 + Twos(x \div 65536)
    ELSE IF x % 256 = 0 THEN 8 + Twos(x \div 256)
    ELSE IF x % 16 = 0 THEN 4 + Twos(x \div 16)
    ELSE IF x % 2 = 0 THEN 1 + Twos(x \div 2)
    ELSE 0

\* s * m * 2^e for 0 < m <= 2^24, with the mantissa made odd (t = Twos(m)).
CanonBy(s, m, e, t) == [k |-> "fin", s |-> s, m |-> m \div (2 ^ t), e |-> e + t]

\* The f32 s * q * 2^e for a mantissa q <= 2^24 that is already rounded:
\* infinite from 2^128 on.
PackRounded(s, q, e) ==
    IF q = 0 THEN ZeroOf(s)
    ELSE IF BitLen(q) + e > 128 THEN Inf(s)
    ELSE CanonBy(s, q, e, Twos(q))

\* Round to nearest, ties to even: q is followed by the remainder r out of
\* 2 * half, and by more non-zero bits when sticky.
RoundUp(q, r, half, sticky) ==
    IF r > half \/ (r = half /\ (sticky \/ q % 2 = 1)) THEN 1 ELSE 0

\* M with its low bits below p = 2^shift rounded away (0 < shift <= 30).
Rounded(M, sticky, p) == (M \div p) + RoundUp(M \div p, M % p, p \div 2, sticky)

PackAt(s, M, e, sticky, shift) ==
    IF shift > 30 THEN ZeroOf(s)
    ELSE PackRounded(s, IF shift <= 0 THEN M * (2 ^ (-shift))
                        ELSE Rounded(M, sticky, 2 ^ shift),
                     e + shift)

IMax(i, j) == IF i > j THEN i ELSE j

\* The f32 nearest to s * (M + f) * 2^e, where 0 <= M < 2^30, and 0 < f < 1
\* when sticky (M then has 26 bits or more) and f = 0 otherwise.  The
\* mantissa keeps 24 bits, fewer below 2^-126 (the subnormal numbers).
Pack(s, M, e, sticky) == PackAt(s, M, e, sticky, IMax(BitLen(M) - 24, (-149) - e))

\* The mantissa of a finite a # 0 scaled to 24 bits, and the exponent that
\* goes with it.
NormM(a) == a.m * (2 ^ (24 - BitLen(a.m)))

NormE(a) == a.e - (24 - BitLen(a.m))

\* i as f32
I(n) ==
    Pack(IF n < 0 THEN -1 ELSE 1,
         IF IAbs(n) < 1073741824 THEN IAbs(n) ELSE IAbs(n) \div 4,
         IF IAbs(n) < 1073741824 THEN 0 ELSE 2,
         IAbs(n) >= 1073741824 /\ IAbs(n) % 4 # 0)

One == I(1)

\* -a
FNeg(a) == IF a.k = "nan" THEN a ELSE [a EXCEPT !.s = -a.s]

\* A + B or A - B on a common exponent e, A > 0 from the operand of the
\* larger magnitude class; what was shifted out of B is non-zero when sticky.
AddSigned(sa, A, sb, B, sticky, e) ==
    IF sa # sb /\ ~sticky /\ A = B THEN Zero
    ELSE Pack(IF sa = sb \/ sticky \/ A > B THEN sa ELSE sb,
              IF sa = sb THEN A + B ELSE IF sticky THEN A - B - 1 ELSE IAbs(A - B),
              e, sticky)

\* B is mb8 shifted right by d places.
AddAligned(sa, A, sb, mb8, d, e) ==
    AddSigned(sa, A, sb, IF d > 27 THEN 0 ELSE mb8 \div (2 ^ d),
              IF d > 27 THEN TRUE ELSE mb8 % (2 ^ d) # 0, e)

\* sa * ma * 2^ea + sb * mb * 2^eb for mantissas of 24 bits and ea >= eb, on
\* three bits more than the mantissa ma.
AddNorm(sa, ma, ea, sb, mb, eb) == AddAligned(sa, ma * 8, sb, mb * 8, ea - eb, ea - 3)

\* a + b for finite non-zero a and b with NormE(a) >= NormE(b).
AddOrdered(a, b) == AddNorm(a.s, NormM(a), NormE(a), b.s, NormM(b), NormE(b))

AddEither(a, b, swap) == AddOrdered(IF swap THEN b ELSE a, IF swap THEN a ELSE b)

AddFinite(a, b) ==
    IF a.m = 0 /\ b.m = 0 THEN ZeroOf(IF a.s = -1 /\ b.s = -1 THEN -1 ELSE 1)
    ELSE IF a.m = 0 THEN b
    ELSE IF b.m = 0 THEN a
    ELSE AddEither(a, b, NormE(a) < NormE(b))

\* a + b
FAdd(a, b) ==
    IF a.k = "fin" /\ b.k = "fin" THEN AddFinite(a, b)
    ELSE IF a.k = "nan" \/ b.k = "nan" THEN NaN
    ELSE IF a.k = "inf" /\ b.k = "inf" THEN (IF a.s = b.s THEN a ELSE NaN)
    ELSE IF a.k = "inf" THEN a
    ELSE b

\* a - b
FSub(a, b) == FAdd(a, FNeg(b))

\* The 48 bits hi0 * 2^24 + low of a product of two 24 bit mantissas, cut
\* to 28 bits and a sticky bit.
MulLow(s, hi0, low, e) ==
    Pack(s, (hi0 + (low \div 16777216)) * 16 + ((low % 16777216) \div 1048576),
         e + 20, low % 1048576 # 0)

\* (a1 * 2^12 + a0) * (b1 * 2^12 + b0) with mid = a1 * b0 + a0 * b1.
MulWide(s, a1, a0, b1, b0, mid, e) ==
    MulLow(s, a1 * b1 + (mid \div 4096), a0 * b0 + (mid % 4096) * 4096, e)

MulSplit(s, a1, a0, b1, b0, e) == MulWide(s, a1, a0, b1, b0, a1 * b0 + a0 * b1, e)

MulNorm(s, ma, mb, e) ==
    MulSplit(s, ma \div 4096, ma % 4096, mb \div 4096, mb % 4096, e)

MulFinite(a, b) ==
    IF a.m = 0 \/ b.m = 0 THEN ZeroOf(a.s * b.s)
    ELSE MulNorm(a.s * b.s, NormM(a), NormM(b), NormE(a) + NormE(b))

\* a * b
FMul(a, b) ==
    IF a.k = "fin" /\ b.k = "fin" THEN MulFinite(a, b)
    ELSE IF a.k = "nan" \/ b.k = "nan" THEN NaN
    ELSE IF (a.k = "fin" /\ a.m = 0) \/ (b.k = "fin" /\ b.m = 0) THEN NaN
    ELSE Inf(a.s * b.s)

\* Long division: n more bits of the quotient q of ma by mb, six at a time,
\* with the remainder r < mb < 2^24.
RECURSIVE DivBits(_, _, _, _)
DivBits(q, r, mb, n) ==
    IF n = 0 THEN <<q, r>>
    ELSE IF n >= 6 THEN DivBits(q * 64 + ((r * 64) \div mb), (r * 64) % mb, mb, n - 6)
    ELSE DivBits(q * (2 ^ n) + ((r * (2 ^ n)) \div mb), (r * (2 ^ n)) % mb, mb, 0)

DivPack(s, qr, e) == Pack(s, qr[1], e, qr[2] # 0)

\* a / b for finite non-zero a and b: floor(ma * 2^26 / mb) and a sticky bit.
DivNorm(s, ma, mb, e) == DivPack(s, DivBits(ma \div mb, ma % mb, mb, 26), e - 26)

\* a / b
FDiv(a, b) ==
    IF a.k = "nan" \/ b.k = "nan" THEN NaN
    ELSE IF a.k = "inf" THEN (IF b.k = "inf" THEN NaN ELSE Inf(a.s * b.s))
    ELSE IF b.k = "inf" THEN ZeroOf(a.s * b.s)
    ELSE IF b.m = 0 THEN (IF a.m = 0 THEN NaN ELSE Inf(a.s * b.s))
    ELSE IF a.m = 0 THEN ZeroOf(a.s * b.s)
    ELSE DivNorm(a.s * b.s, NormM(a), NormM(b), NormE(a) - NormE(b))

\* The f32 nearest to n / d, which is what the literal n/d of the source is.
F(n, d) == FDiv(I(n), I(d))

Half == F(1, 2)

\* |a| < |b| for finite a and b.
MagLt(a, b) ==
    IF b.m = 0 THEN FALSE
    ELSE IF a.m = 0 THEN TRUE
    ELSE IF NormE(a) # NormE(b) THEN NormE(a) < NormE(b)
    ELSE NormM(a) < NormM(b)

\* -1, 0 or 1 as the finite a is negative, a zero or positive.
SignOf(a) == IF a.m = 0 THEN 0 ELSE a.s

\* a < b as f32 compares: false when either is NaN.
FLt(a, b) ==
    IF a.k = "nan" \/ b.k = "nan" THEN FALSE
    ELSE IF a.k = "inf" THEN a.s = -1 /\ ~(b.k = "inf" /\ b.s = -1)
    ELSE IF b.k = "inf" THEN b.s = 1
    ELSE IF SignOf(a) # SignOf(b) THEN SignOf(a) < SignOf(b)
    ELSE IF SignOf(a) = 1 THEN MagLt(a, b)
    ELSE IF SignOf(a) = -1 THEN MagLt(b, a)
    ELSE FALSE

FGt(a, b) == FLt(b, a)

\* a == b as f32 compares: false when either is NaN, true on -0.0 and +0.0.
FEq(a, b) ==
    /\ a.k # "nan" /\ b.k # "nan"
    /\ (a = b \/ (a.k = "fin" /\ b.k = "fin" /\ a.m = 0 /\ b.m = 0))

FLe(a, b) == a.k # "nan" /\ b.k # "nan" /\ ~FLt(b, a)

FGe(a, b) == FLe(b, a)

RECURSIVE ISqrtIn(_, _, _)
ISqrtIn(n, lo, hi) ==
    IF lo >= hi THEN lo
    ELSE IF ((lo + hi + 1) \div 2) * ((lo + hi + 1) \div 2) <= n
         THEN ISqrtIn(n, (lo + hi + 1) \div 2, hi)
         ELSE ISqrtIn(n, lo, ((lo + hi + 1) \div 2) - 1)

\* floor(sqrt(n)) for 0 <= n < 2^31
ISqrt(n) == ISqrtIn(n, 0, IF n < 46340 THEN n ELSE 46340)

\* n more bits of a square root, one for every two zero bits appended to
\* the radicand, which is root * root + rem.
RECURSIVE SqrtBits(_, _, _)
SqrtBits(root, rem, n) ==
    IF n = 0 THEN <<root, rem>>
    ELSE IF rem * 4 >= root * 4 + 1
    THEN SqrtBits(root * 2 + 1, rem * 4 - (root * 4 + 1), n - 1)
    ELSE SqrtBits(root * 2, rem * 4, n - 1)

SqrtPack(rr, e) == Pack(1, rr[1], e, rr[2] # 0)

\* sqrt(m * 2^28) from r0 = ISqrt(m * 16), for m below 2^25.
SqrtFrom(m, r0, e) == SqrtPack(SqrtBits(r0, m * 16 - r0 * r0, 12), e)

\* sqrt(m * 2^e) for a 24 bit m: e is made even first.
SqrtEven(m, e) == SqrtFrom(m, ISqrt(m * 16), e \div 2)

SqrtNorm(m, e) ==
    SqrtEven(IF e % 2 = 0 THEN m ELSE m * 2, IF e % 2 = 0 THEN e - 28 ELSE e - 29)

\* f32::sqrt
FSqrt(a) ==
    IF a.k = "nan" THEN NaN
    ELSE IF a.k = "inf" THEN (IF a.s = 1 THEN a ELSE NaN)
    ELSE IF a.m = 0 THEN a
    ELSE IF a.s = -1 THEN NaN
    ELSE SqrtNorm(NormM(a), NormE(a))

\* ------------------------------------- natural numbers of any size

\* A natural number as the sequence of its digits in base 2^15 = 32768, the
\* lowest first and the highest not 0; <<>> is 0.
Digit(a, i) == IF i >= 1 /\ i <= Len(a) THEN a[i] ELSE 0

RECURSIVE BTrim(_)
BTrim(a) ==
    IF a # <<>> /\ a[Len(a)] = 0 THEN BTrim(SubSeq(a, 1, Len(a) - 1)) ELSE a

\* The natural number n < 2^31, and back.
BNat(n) == BTrim(<<n % 32768, (n \div 32768) % 32768, n \div 1073741824>>)

BInt(a) == Digit(a, 1) + 32768 * Digit(a, 2) + 1073741824 * Digit(a, 3)

RECURSIVE BAddFrom(_, _, _, _)
BAddFrom(a, b, i, carry) ==
    IF i > Len(a) /\ i > Len(b) THEN (IF carry = 0 THEN <<>> ELSE <<carry>>)
    ELSE <<(Digit(a, i) + Digit(b, i) + carry) % 32768>>
         \o BAddFrom(a, b, i + 1, (Digit(a, i) + Digit(b, i) + carry) \div 32768)

BAdd(a, b) == BAddFrom(a, b, 1, 0)

\* a - b for a >= b.
RECURSIVE BSubFrom(_, _, _, _)
BSubFrom(a, b, i, borrow) ==
    IF i > Len(a) THEN <<>>
    ELSE <<(a[i] - Digit(b, i) - borrow + 32768) % 32768>>
         \o BSubFrom(a, b, i + 1, IF a[i] - Digit(b, i) - borrow < 0 THEN 1 ELSE 0)

BSub(a, b) == BTrim(BSubFrom(a, b, 1, 0))

\* -1, 0 or 1 as a < b, a = b or a > b.
RECURSIVE BCmpAt(_, _, _)
BCmpAt(a, b, i) ==
    IF i = 0 THEN 0
    ELSE IF a[i] < b[i] THEN -1
    ELSE IF a[i] > b[i] THEN 1
    ELSE BCmpAt(a, b, i - 1)

BCmp(a, b) ==
    IF Len(a) < Len(b) THEN -1
    ELSE IF Len(a) > Len(b) THEN 1
    ELSE BCmpAt(a, b, Len(a))

\* a * d for one digit d.
RECURSIVE BMulDigit(_, _, _, _)
BMulDigit(a, d, i, carry) ==
    IF i > Len(a) THEN (IF carry = 0 THEN <<>> ELSE <<carry>>)
    ELSE <<(a[i] * d + carry) % 32768>>
         \o BMulDigit(a, d, i + 1, (a[i] * d + carry) \div 32768)

RECURSIVE BMulFrom(_, _, _)
BMulFrom(a, b, j) ==
    IF j > Len(b) THEN <<>>
    ELSE BAdd(BMulDigit(a, b[j], 1, 0), <<0>> \o BMulFrom(a, b, j + 1))

BMul(a, b) == BTrim(BMulFrom(a, b, 1))

\* The number of bits of a.
BBitLen(a) == IF a = <<>> THEN 0 ELSE 15 * (Len(a) - 1) + BitLen(a[Len(a)])

\* 2^k, a * 2^k, a \div 2^k and a % 2^k.
BPow2(k) == [i \in 1..(k \div 15) |-> 0] \o <<2 ^ (k % 15)>>

BShl(a, k) ==
    IF a = <<>> THEN a
    ELSE [i \in 1..(k \div 15) |-> 0] \o BMulDigit(a, 2 ^ (k % 15), 1, 0)

BShrBits(a, p) ==
    BTrim([i \in 1..Len(a) |-> (a[i] \div p) + (Digit(a, i + 1) % p) * (32768 \div p)])

BShr(a, k) ==
    IF k \div 15 >= Len(a) THEN <<>>
    ELSE BShrBits(SubSeq(a, (k \div 15) + 1, Len(a)), 2 ^ (k % 15))

BLow(a, k) ==
    IF k \div 15 >= Len(a) THEN a
    ELSE BTrim(SubSeq(a, 1, k \div 15) \o <<a[(k \div 15) + 1] % (2 ^ (k % 15))>>)

\* --------------------------------------------- f64 (IEEE 754 binary64)

\* A finite f64 is s * m * 2^e with the sign s in {1, -1} and m a natural
\* number of at most 53 bits.  The values that occur in sinf and cosf are
\* far from the subnormal numbers and from overflow.
F64(s, m, e) == [s |-> s, m |-> m, e |-> e]

\* M with its low `shift` bits rounded away, to nearest, ties to even.
F64RoundedUp(q, cmp) ==
    IF cmp > 0 \/ (cmp = 0 /\ Digit(q, 1) % 2 = 1) THEN BAdd(q, <<1>>) ELSE q

F64RoundAt(s, M, e, shift) ==
    IF shift <= 0 THEN F64(s, M, e)
    ELSE F64(s, F64RoundedUp(BShr(M, shift), BCmp(BLow(M, shift), BPow2(shift - 1))),
             e + shift)

\* The f64 nearest to s * M * 2^e.
F64Round(s, M, e) == F64RoundAt(s, M, e, BBitLen(M) - 53)

\* f64 *
F64Mul(a, b) == F64Round(a.s * b.s, BMul(a.m, b.m), a.e + b.e)

\* The f64 nearest to sa * A * 2^e + sb * B * 2^e, where cmp is BCmp(A, B).
F64SumCmp(sa, A, sb, B, e, cmp) ==
    IF sa # sb /\ cmp = 0 THEN F64(1, <<>>, 0)
    ELSE F64Round(IF sa = sb \/ cmp > 0 THEN sa ELSE sb,
                  IF sa = sb THEN BAdd(A, B)
                  ELSE IF cmp > 0 THEN BSub(A, B)
                  ELSE BSub(B, A),
                  e)

F64SumAligned(sa, A, sb, B, e) == F64SumCmp(sa, A, sb, B, e, BCmp(A, B))

\* The f64 nearest to sa * A * 2^ea + sb * B * 2^eb: both on the lower of
\* the two exponents.
F64Sum(sa, A, ea, sb, B, eb) ==
    F64SumAligned(sa, IF ea >= eb THEN BShl(A, ea - eb) ELSE A,
                  sb, IF ea >= eb THEN B ELSE BShl(B, eb - ea),
                  IF ea >= eb THEN eb ELSE ea)

\* fma(a, b, c): a * b + c rounded once.
F64Fma(a, b, c) == F64Sum(a.s * b.s, BMul(a.m, b.m), a.e + b.e, c.s, c.m, c.e)

F64Neg(a) == F64(-a.s, a.m, a.e)

\* x as f64 for an f32 x, n as f64 for an integer n.
F64FromF32(x) == F64(x.s, BNat(x.m), x.e)

F64FromInt(n) == F64(IF n < 0 THEN -1 ELSE 1, BNat(IAbs(n)), 0)

\* (int32_t) r: the integer part of r, for |r| < 2^31.
F64Trunc(r) ==
    r.s * BInt(IF r.e >= 0 THEN BShl(r.m, r.e) ELSE BShr(r.m, -r.e))

\* (float) d
F64ToF32At(d, shift) ==
    Pack(d.s, BInt(BShr(d.m, shift)), d.e + shift, BLow(d.m, shift) # <<>>)

F64ToF32(d) == F64ToF32At(d, IMax(BBitLen(d.m) - 30, 0))

\* ------------------------------------------ the bits of an f32

\* asfloat(u) for a bit pattern u < 2^31 (sign bit 0).
asfloat(u) ==
    IF u > 2139095040 THEN NaN
    ELSE IF u = 2139095040 THEN Inf(1)
    ELSE Pack(1, IF u < 8388608 THEN u ELSE 8388608 + (u % 8388608),
              IF u < 8388608 THEN -149 ELSE (u \div 8388608) - 150, FALSE)

\* asuint(x) & 0x7fffffff
absbits(x) ==
    IF x.k = "nan" THEN 2143289344
    ELSE IF x.k = "inf" THEN 2139095040
    ELSE IF x.m = 0 THEN 0
    ELSE IF NormE(x) + 23 < -126 THEN x.m * (2 ^ (x.e + 149))
    ELSE (NormE(x) + 150) * 8388608 + (NormM(x) - 8388608)

\* asuint(x) >> 31
signbit(x) == IF x.k # "nan" /\ x.s = -1 THEN 1 ELSE 0

\* fabsf(x)
fabsf(x) == IF x.k = "nan" THEN x ELSE [x EXCEPT !.s = 1]

\* -------------------------------------- f32::sin and f32::cos (sinf, cosf)

\* f32::sin and f32::cos are the sinf and cosf of the C library: the argument
\* is reduced to [-pi/4, pi/4] in f64, a polynomial is evaluated in f64 with
\* fused multiply-adds, and the result is rounded to f32.

\* __sincosf_table[0]: 2^24 * 2/pi, pi/2, and the coefficients of the cosine
\* and sine polynomials.
sincosf_table0 ==
    [hpi_inv |-> F64(1, <<18563, 23443, 31937, 162>>, -29),  \* 0x1.45F306DC9C883p+23
     hpi |-> F64(1, <<1443, 21777, 4349, 25>>, -49),         \* 0x1.921FB54442D18p0
     c0 |-> F64(1, <<1>>, 0),                                \* 0x1p0
     c1 |-> F64(-1, <<6279, 32390, 32767, 63>>, -52),        \* -0x1.ffffffd0c621cp-2
     c2 |-> F64(1, <<3865, 16909, 21839, 170>>, -57),        \* 0x1.55553e1068f19p-5
     c3 |-> F64(-1, <<13725, 20788, 543, 182>>, -62),        \* -0x1.6c087e89a359dp-10
     c4 |-> F64(1, <<30915, 1271, 19724, 204>>, -68),        \* 0x1.99343027bf8c3p-16
     s1 |-> F64(-1, <<9731, 13099, 21841, 170>>, -55),       \* -0x1.555545995a603p-3
     s2 |-> F64(1, <<17137, 657, 4214, 34>>, -57),           \* 0x1.1107605230bc4p-7
     s3 |-> F64(-1, <<13257, 7098, 5355, 51>>, -63)]         \* -0x1.994eb3774cf24p-13

\* __sincosf_table[1]: the cosine coefficients negated.
sincosf_table1 ==
    [sincosf_table0 EXCEPT !.c0 = F64Neg(@), !.c1 = F64Neg(@), !.c2 = F64Neg(@),
                           !.c3 = F64Neg(@), !.c4 = F64Neg(@)]

\* p->sign[n & 3] and the table for the quadrant n.
quadrant_sign(n) == IF n % 4 = 1 \/ n % 4 = 2 THEN -1 ELSE 1

quadrant_table(n) == IF n % 4 >= 2 THEN sincosf_table1 ELSE sincosf_table0

\* pi63: 0x1.921FB54442D18p-62
pi63 == F64(1, <<1443, 21777, 4349, 25>>, -111)

\* __inv_pio4: the bits of 4/pi in words of 32 bits that start 8 bits apart.
inv_pio4 ==
    << <<162>>,                  \* 0xa2
       <<8953, 1>>,              \* 0xa2f9
       <<31107, 325>>,           \* 0xa2f983
       <<878, 17907, 2>>,        \* 0xa2f9836e
       <<28238, 29446, 3>>,      \* 0xf9836e4e
       <<20036, 1756, 2>>,       \* 0x836e4e44
       <<17429, 23708, 1>>,      \* 0x6e4e4415
       <<5417, 7304, 1>>,        \* 0x4e441529
       <<10748, 2090, 1>>,       \* 0x441529fc
       <<31783, 10835>>,         \* 0x1529fc27
       <<10071, 21496>>,         \* 0x29fc2757
       <<22481, 30798, 3>>,      \* 0xfc2757d1
       <<20981, 20143>>,         \* 0x2757d1f5
       <<30004, 12195, 1>>,      \* 0x57d1f534
       <<13533, 9194, 3>>,       \* 0xd1f534dd
       <<24000, 27241, 3>>,      \* 0xf534ddc0
       <<16603, 27067>>,         \* 0x34ddc0db
       <<23394, 15233, 3>>,      \* 0xddc0db62
       <<25237, 438, 3>>,        \* 0xc0db6295
       <<5529, 14021, 3>>,       \* 0xdb629599
       <<6460, 17707, 1>>,       \* 0x6295993c
       <<15427, 11058, 2>>,      \* 0x95993c43
       <<17296, 12920, 2>>,      \* 0x993c4390
       <<4161, 30855>> >>        \* 0x3c439041

\* sinf_poly for even n: x + x^3 * s1 + x^7 * (s2 + x^2 * s3), as f32.
sinf_poly_sin(x, x2, x3, p) ==
    F64ToF32(F64Fma(F64Mul(x3, x2), F64Fma(x2, p.s3, p.s2), F64Fma(x3, p.s1, x)))

\* sinf_poly for odd n: c0 + x^2 * (c1 + x^2 * c2) + x^6 * (c3 + x^2 * c4),
\* as f32.
sinf_poly_cos(x2, x4, p) ==
    F64ToF32(F64Fma(F64Mul(x4, x2), F64Fma(x2, p.c4, p.c3),
                    F64Fma(x2, F64Fma(x2, p.c2, p.c1), p.c0)))

sinf_poly(x, x2, p, n) ==
    IF n % 2 = 0 THEN sinf_poly_sin(x, x2, F64Mul(x, x2), p)
    ELSE sinf_poly_cos(x2, F64Mul(x2, x2), p)

\* The results of reduce_fast and reduce_large: x - n * pi/2 and n.
Reduced(x, n) == [x |-> x, n |-> n]

\* reduce_fast, for |x| < 120: n is x * 2/pi rounded to an integer.
reduce_fast_by(x, p, n) == Reduced(F64Fma(F64FromInt(-n), p.hpi, x), n)

reduce_fast(x, p) ==
    reduce_fast_by(x, p, (F64Trunc(F64Mul(x, p.hpi_inv)) + 8388608) \div 16777216)

\* reduce_large, for 120 <= |x| < inf: the mantissa xi of |x| is multiplied
\* by the 96 bits of 4/pi that matter for it, in integers modulo 2^64.
\* (double) (int64_t) v for v = a - b modulo 2^64.
int64_of(d) ==
    IF BBitLen(d) = 64 THEN F64Round(-1, BSub(BPow2(64), d), 0) ELSE F64Round(1, d, 0)

int64_to_f64(a, b) ==
    IF BCmp(a, b) < 0 THEN F64Round(-1, BSub(b, a), 0) ELSE int64_of(BSub(a, b))

reduce_large_n(res0, n) ==
    Reduced(F64Mul(int64_to_f64(res0, BShl(n, 62)), pi63), BInt(n))

reduce_large_res(res0) ==
    reduce_large_n(res0, BLow(BShr(BAdd(res0, BPow2(61)), 62), 2))

reduce_large_words(xi, w0, w4, w8) ==
    reduce_large_res(
        BLow(BAdd(BAdd(BShr(BMul(xi, w8), 32), BShl(BLow(BMul(xi, w0), 32), 32)),
                  BMul(xi, w4)), 64))

reduce_large(bits) ==
    reduce_large_words(
        BNat((8388608 + (bits % 8388608)) * (2 ^ ((bits \div 8388608) % 8))),
        inv_pio4[((bits \div 67108864) % 16) + 1],
        inv_pio4[((bits \div 67108864) % 16) + 5],
        inv_pio4[((bits \div 67108864) % 16) + 9])

\* sinf and cosf once the argument is reduced to r.x in quadrant r.n; q is
\* the quadrant that decides the signs (n, or n + 1 for a negative argument
\* of reduce_large) and odd is 0 for sinf and 1 for cosf.
sincosf_reduced(r, q, odd) ==
    sinf_poly(IF quadrant_sign(q) = 1 THEN r.x ELSE F64Neg(r.x), F64Mul(r.x, r.x),
              quadrant_table(q), r.n + odd)

\* The reduction of y by the 12 highest bits top of |y|: none below pi/4
\* (top < 0x3f4), reduce_fast below 120 (top < 0x42f), reduce_large above.
sincosf_reduce(y, top) ==
    IF top < 1012 THEN Reduced(F64FromF32(y), 0)
    ELSE IF top < 1071 THEN reduce_fast(F64FromF32(y), sincosf_table0)
    ELSE reduce_large(absbits(y))

sincosf_in(y, top, r, odd) ==
    sincosf_reduced(r, IF top < 1071 THEN r.n ELSE r.n + signbit(y), odd)

\* |y| < 2^-12 (top < 0x398) gives y or 1.0, an infinity or NaN gives NaN.
sincosf_top(y, top, odd) ==
    IF top < 920 THEN (IF odd = 0 THEN y ELSE One)
    ELSE IF top < 2040 THEN sincosf_in(y, top, sincosf_reduce(y, top), odd)
    ELSE NaN

sincosf(y, odd) == sincosf_top(y, absbits(y) \div 1048576, odd)

\* f32::sin
sin(x) == sincosf(x, 0)

\* f32::cos
cos(x) == sincosf(x, 1)

\* ---------------------------------------------- f32::atan2 (atan2f)

\* f32::atan2 is the atan2f of the C library, which is computed in f32: the
\* quotient |y / x| is reduced by one of atan(0.5), atan(1), atan(1.5) and
\* atan(inf), and a polynomial is evaluated on what remains.

\* atanhi[id] and atanlo[id] for id in 0..3
atanhi(id) ==
    asfloat(<<1055744824, 1061752794, 1065064542, 1070141402>>[id + 1])

atanlo(id) ==
    asfloat(<<833369961, 857874792, 856952756, 866263400>>[id + 1])

\* aT[i] for i in 0..10: 0x3eaaaaab, 0xbe4ccccd, 0x3e124925, 0xbde38e38,
\* 0x3dba2e6e, 0xbd9d8795, 0x3d886b35, 0xbd6ef16b, 0x3d4bda59, 0xbd15a221,
\* 0x3c8569d7.
aT(i) ==
    IF i % 2 = 0
       THEN asfloat(<<1051372203, 1041385765, 1035611758, 1032350517, 1028381273,
                      1015376343>>[(i \div 2) + 1])
       ELSE FNeg(asfloat(<<1045220557, 1038323256, 1033734037, 1030680939,
                           1024827937>>[((i - 1) \div 2) + 1]))

\* aT[i] + w * (aT[i + 2] + w * (... + w * aT[last])), from acc, the value
\* of the bracket that follows aT[i].
RECURSIVE atanf_horner(_, _, _)
atanf_horner(w, i, acc) ==
    IF i < 0 THEN acc ELSE atanf_horner(w, i - 2, FAdd(aT(i), FMul(w, acc)))

\* s1 and s2 of atanf: the sum of aT[i] * z^(i+1) split into its even and
\* odd terms, with w = z * z.
atanf_s1(z, w) == FMul(z, atanf_horner(w, 8, aT(10)))

atanf_s2(w) == FMul(w, atanf_horner(w, 7, aT(9)))

atanf_sums(x, z, w) == FMul(x, FAdd(atanf_s1(z, w), atanf_s2(w)))

atanf_sum(x, z) == atanf_sums(x, z, FMul(z, z))

\* atanf after the argument reduction: x is the reduced argument, t the sum
\* of the polynomial for it, id the reduction that was made (-1 for none),
\* negative the sign of the argument.
atanf_signed(z, negative) == IF negative THEN FNeg(z) ELSE z

atanf_result(x, t, id, negative) ==
    IF id < 0 THEN FSub(x, t)
    ELSE atanf_signed(FSub(atanhi(id), FSub(FSub(t, atanlo(id)), x)), negative)

atanf_reduced(x, id, negative) == atanf_result(x, atanf_sum(x, FMul(x, x)), id, negative)

\* The reduction id for the bits ix of |x|: below 7/16 none, below 11/16
\* atan(0.5), below 19/16 atan(1), below 39/16 atan(1.5), else atan(inf).
atanf_id(ix) ==
    IF ix < 1054867456 THEN -1
    ELSE IF ix < 1060110336 THEN 0
    ELSE IF ix < 1066926080 THEN 1
    ELSE IF ix < 1075576832 THEN 2
    ELSE 3

\* The reduced argument for x = |argument|.
atanf_arg(x, id) ==
    CASE id = 0 -> FDiv(FSub(FMul(I(2), x), One), FAdd(I(2), x))
      [] id = 1 -> FDiv(FSub(x, One), FAdd(x, One))
      [] id = 2 -> FDiv(FSub(x, F(3, 2)), FAdd(One, FMul(F(3, 2), x)))
      [] id = 3 -> FDiv(FNeg(One), x)

atanf_by(x, id) ==
    atanf_reduced(IF id < 0 THEN x ELSE atanf_arg(fabsf(x), id), id, signbit(x) = 1)

atanf(x) ==
    IF absbits(x) >= 1275068416
       THEN (IF absbits(x) > 2139095040 THEN FAdd(x, x)
             ELSE atanf_signed(FAdd(atanhi(3), atanlo(3)), signbit(x) = 1))
    ELSE IF absbits(x) < 822083584 THEN x
    ELSE atanf_by(x, atanf_id(absbits(x)))

\* f32::consts::PI and the constants of atan2f.
PI == asfloat(1078530011)            \* 0x40490fdb

pi_o_2 == asfloat(1070141403)        \* 0x3fc90fdb

pi_o_4 == asfloat(1061752795)        \* 0x3f490fdb

pi_lo == FNeg(asfloat(867941678))    \* 0xb3bbbd2e

tiny == asfloat(228737632)           \* 1.0e-30

\* The result of atan2f from z = atan(|y / x|) and m = 2 * sign(x) + sign(y).
atan2f_quadrant(z, m) ==
    CASE m = 0 -> z
      [] m = 1 -> FNeg(z)
      [] m = 2 -> FSub(PI, FSub(z, pi_lo))
      [] m = 3 -> FSub(FSub(z, pi_lo), PI)

\* atan2f for finite x and y that are not 0; k is the difference of the
\* exponents of y and x.
atan2f_finite(y, x, m, k) ==
    atan2f_quadrant(
        IF k > 60 THEN FAdd(pi_o_2, FMul(Half, pi_lo))
        ELSE IF signbit(x) = 1 /\ k < -60 THEN Zero
        ELSE atanf(fabsf(FDiv(y, x))),
        m)

atan2f_signs(y, x, m) ==
    IF absbits(y) = 0
       THEN (CASE m \in {0, 1} -> y
               [] m = 2 -> FAdd(PI, tiny)
               [] m = 3 -> FSub(FNeg(PI), tiny))
    ELSE IF absbits(x) = 0
       THEN (IF signbit(y) = 1 THEN FSub(FNeg(pi_o_2), tiny) ELSE FAdd(pi_o_2, tiny))
    ELSE IF absbits(x) = 2139095040 /\ absbits(y) = 2139095040
       THEN (CASE m = 0 -> FAdd(pi_o_4, tiny)
               [] m = 1 -> FSub(FNeg(pi_o_4), tiny)
               [] m = 2 -> FAdd(FMul(I(3), pi_o_4), tiny)
               [] m = 3 -> FSub(FMul(I(-3), pi_o_4), tiny))
    ELSE IF absbits(x) = 2139095040
       THEN (CASE m = 0 -> Zero
               [] m = 1 -> ZeroOf(-1)
               [] m = 2 -> FAdd(PI, tiny)
               [] m = 3 -> FSub(FNeg(PI), tiny))
    ELSE IF absbits(y) = 2139095040
       THEN (IF signbit(y) = 1 THEN FSub(FNeg(pi_o_2), tiny) ELSE FAdd(pi_o_2, tiny))
    ELSE atan2f_finite(y, x, m, (absbits(y) - absbits(x)) \div 8388608)

\* f32::atan2: y.atan2(x)
atan2(y, x) ==
    IF absbits(x) > 2139095040 \/ absbits(y) > 2139095040 THEN FAdd(x, y)
    ELSE IF absbits(x) = 1065353216 /\ signbit(x) = 0 THEN atanf(y)
    ELSE atan2f_signs(y, x, signbit(y) + 2 * signbit(x))

\* ------------------------------------------------------------- Point

\* (dx * dx + dy * dy).sqrt()
Hypot(dx, dy) == FSqrt(FAdd(FMul(dx, dx), FMul(dy, dy)))

\* The vector from point a to point b and its length.
Delta(a, b) ==
    [dx |-> FSub(b.position[1], a.position[1]),
     dy |-> FSub(b.position[2], a.position[2]),
     distance |-> Hypot(FSub(b.position[1], a.position[1]),
                        FSub(b.position[2], a.position[2]))]

\* Point::new: velocity and force are zero, no components, not fixed.
Point_new(x, y, mass, radius) ==
    [position |-> <<x, y>>, velocity |-> <<Zero, Zero>>, force |-> <<Zero, Zero>>,
     mass |-> mass, radius |-> radius, components |-> <<>>, fixed |-> FALSE]

add_component(p, comp) == [p EXCEPT !.components = Append(@, comp)]

apply_force(p, fx, fy) ==
    [p EXCEPT !.force = <<FAdd(@[1], fx), FAdd(@[2], fy)>>]

\* The second half of Point::update: the position advanced by the updated
\* velocity, the force reset.
update_position(p, dt) ==
    [p EXCEPT !.position = <<FAdd(@[1], FMul(p.velocity[1], dt)),
                             FAdd(@[2], FMul(p.velocity[2], dt))>>,
              !.force = <<Zero, Zero>>]

\* The first half of Point::update: the velocity advanced by force / mass.
update_velocity(p, dt) ==
    [p EXCEPT !.velocity = <<FAdd(@[1], FMul(FDiv(p.force[1], p.mass), dt)),
                             FAdd(@[2], FMul(FDiv(p.force[2], p.mass), dt))>>]

\* A variant of update that advances the position by the velocity the point
\* had before the call; UpdateIntegrates fails on it.
update_position_first(p, dt) ==
    IF p.fixed THEN p
    ELSE [update_velocity(p, dt)
            EXCEPT !.position = <<FAdd(@[1], FMul(p.velocity[1], dt)),
                                  FAdd(@[2], FMul(p.velocity[2], dt))>>,
                   !.force = <<Zero, Zero>>]

update(p, dt) ==
    IF p.fixed THEN p ELSE update_position(update_velocity(p, dt), dt)

is_colliding_with(p, other) ==
    FLt(Hypot(FSub(p.position[1], other.position[1]),
              FSub(p.position[2], other.position[2])),
        FAdd(p.radius, other.radius))

restitution == F(4, 5)

percent == F(1, 5)

\* A variant of resolve_impulse in which the impulse on `other` is not divided
\* by its mass; MomentumConserved fails on it.
resolve_impulse_unweighted(self, other, impulse_x, impulse_y) ==
    <<IF self.fixed THEN self
      ELSE [self EXCEPT !.velocity = <<FSub(@[1], FDiv(impulse_x, self.mass)),
                                       FSub(@[2], FDiv(impulse_y, self.mass))>>],
      IF other.fixed THEN other
      ELSE [other EXCEPT !.velocity = <<FAdd(@[1], impulse_x),
                                        FAdd(@[2], impulse_y)>>]>>

\* "Apply impulse": each non-fixed point's velocity changes by impulse / mass.
resolve_impulse(self, other, impulse_x, impulse_y) ==
    <<IF self.fixed THEN self
      ELSE [self EXCEPT !.velocity = <<FSub(@[1], FDiv(impulse_x, self.mass)),
                                       FSub(@[2], FDiv(impulse_y, self.mass))>>],
      IF other.fixed THEN other
      ELSE [other EXCEPT !.velocity = <<FAdd(@[1], FDiv(impulse_x, other.mass)),
                                        FAdd(@[2], FDiv(impulse_y, other.mass))>>]>>

\* A variant of resolve_correction that pushes the points toward each other;
\* OverlapNeverGrows fails on it.
resolve_correction_inward(self, other, correction_x, correction_y) ==
    <<IF self.fixed THEN self
      ELSE [self EXCEPT !.position = <<FAdd(@[1], correction_x),
                                       FAdd(@[2], correction_y)>>],
      IF other.fixed THEN other
      ELSE [other EXCEPT !.position = <<FSub(@[1], correction_x),
                                        FSub(@[2], correction_y)>>]>>

\* "Positional correction to prevent sinking".
resolve_correction(self, other, correction_x, correction_y) ==
    <<IF self.fixed THEN self
      ELSE [self EXCEPT !.position = <<FSub(@[1], correction_x),
                                       FSub(@[2], correction_y)>>],
      IF other.fixed THEN other
      ELSE [other EXCEPT !.position = <<FAdd(@[1], correction_x),
                                        FAdd(@[2], correction_y)>>]>>

\* "Calculate impulse scalar"
impulse_scalar(self, other, velocity_along_normal) ==
    FDiv(FMul(FNeg(FAdd(One, restitution)), velocity_along_normal),
         FAdd(FDiv(One, self.mass), FDiv(One, other.mass)))

\* (overlap / distance) * percent
correction(overlap, distance) == FMul(FDiv(overlap, distance), percent)

\* The positional correction of the pair `sp` that the impulse produced.
resolve_apply(sp, nx, ny, corr) ==
    resolve_correction(sp[1], sp[2], FMul(nx, corr), FMul(ny, corr))

resolve_impulse_along(self, other, nx, ny, scalar) ==
    resolve_impulse(self, other, FMul(scalar, nx), FMul(scalar, ny))

\* The code's test "Do not resolve if objects are moving apart".
moving_apart(velocity_along_normal) == FGt(velocity_along_normal, Zero)

resolve_along(self, other, nx, ny, overlap, distance, velocity_along_normal) ==
    IF moving_apart(velocity_along_normal) THEN <<self, other>>
    ELSE resolve_apply(
            resolve_impulse_along(self, other, nx, ny,
                impulse_scalar(self, other, velocity_along_normal)),
            nx, ny, correction(overlap, distance))

\* relative_velocity . normal, the relative velocity being self's minus other's.
velocity_along_normal(self, other, nx, ny) ==
    FAdd(FMul(FSub(self.velocity[1], other.velocity[1]), nx),
         FMul(FSub(self.velocity[2], other.velocity[2]), ny))

resolve_contact(self, other, nx, ny, overlap, distance) ==
    resolve_along(self, other, nx, ny, overlap, distance,
                  velocity_along_normal(self, other, nx, ny))

resolve_overlap(self, other, g, overlap) ==
    IF FLe(overlap, Zero) THEN <<self, other>>
    ELSE resolve_contact(self, other, FDiv(g.dx, g.distance), FDiv(g.dy, g.distance),
                         overlap, g.distance)

resolve_delta(self, other, g) ==
    IF FEq(g.distance, Zero) THEN <<self, other>>
    ELSE resolve_overlap(self, other, g,
                         FSub(FAdd(self.radius, other.radius), g.distance))

\* Point::resolve_collision(&mut self, other): the pair <<self, other>> after it.
resolve_collision(self, other) ==
    IF self.fixed /\ other.fixed THEN <<self, other>>
    ELSE resolve_delta(self, other, Delta(self, other))

\* --------------------------------------------------------- Constraint

Constraint_new(point1, point2, rest_length, stiffness) ==
    [point1 |-> point1, point2 |-> point2,
     rest_length |-> rest_length, stiffness |-> stiffness]

\* "Apply the correction based on mass ratios": the positions of p1 and p2.
solve_apply(p1, p2, correction_x, correction_y, ratio1, ratio2) ==
    <<IF p1.fixed THEN p1.position
      ELSE <<FAdd(p1.position[1], FMul(correction_x, ratio1)),
             FAdd(p1.position[2], FMul(correction_y, ratio1))>>,
      IF p2.fixed THEN p2.position
      ELSE <<FSub(p2.position[1], FMul(correction_x, ratio2)),
             FSub(p2.position[2], FMul(correction_y, ratio2))>>>>

\* A variant of solve_ratios in which each point is weighted by its own mass;
\* MassWeightedCorrection fails on it.
solve_ratios_swapped(p1, p2, total_mass) ==
    <<FDiv(p1.mass, total_mass), FDiv(p2.mass, total_mass)>>

\* ratio1 and ratio2 of solve.
solve_ratios(p1, p2, total_mass) ==
    <<FDiv(p2.mass, total_mass), FDiv(p1.mass, total_mass)>>

\* A variant of solve_correction that corrects away from the rest length;
\* ConstraintErrorShrinks fails on it.
solve_correction_away(c, p1, p2, g, diff, ratios) ==
    solve_apply(p1, p2, FMul(FMul(g.dx, FNeg(diff)), c.stiffness),
                FMul(FMul(g.dy, FNeg(diff)), c.stiffness), ratios[1], ratios[2])

solve_correction(c, p1, p2, g, diff, ratios) ==
    solve_apply(p1, p2, FMul(FMul(g.dx, diff), c.stiffness),
                FMul(FMul(g.dy, diff), c.stiffness), ratios[1], ratios[2])

solve_delta(c, p1, p2, g) ==
    IF FEq(g.distance, Zero) THEN <<p1.position, p2.position>>
    ELSE solve_correction(c, p1, p2, g,
                          FDiv(FSub(g.distance, c.rest_length), g.distance),
                          solve_ratios(p1, p2, FAdd(p1.mass, p2.mass)))

solve_pair(c, p1, p2) == solve_delta(c, p1, p2, Delta(p1, p2))

\* Constraint::solve panics on its slice indexing (split_at_mut, left[..],
\* right[0]) when the two indices are equal or one of them is not an index of
\* points.
solve_panics(c, pts) ==
    c.point1 = c.point2 \/ c.point1 > Len(pts) \/ c.point2 > Len(pts)

\* Constraint::solve(&self, points): the point collection after it, when
\* solve_panics is false of the call.  Indices are 1-based here.
solve(c, pts) ==
    [pts EXCEPT ![c.point1].position = solve_pair(c, pts[c.point1], pts[c.point2])[1],
                ![c.point2].position = solve_pair(c, pts[c.point1], pts[c.point2])[2]]

\* --------------------------------------------------------- components

Gravity_new(strength) == [type |-> "Gravity", a |-> strength, b |-> Zero]

Friction_new(coefficient) == [type |-> "Friction", a |-> coefficient, b |-> Zero]

\* Force::new(Vec2) and Force::permanent(x, y) build the same component.
Force_new(x, y) == [type |-> "Force", a |-> x, b |-> y]

FClamp(x, lo, hi) == IF FLt(x, lo) THEN lo ELSE IF FGt(x, hi) THEN hi ELSE x

\* Collision::new: a is bounce, b is slope_friction.
Collision_new(bounce, slope_friction) ==
    [type |-> "Collision", a |-> FClamp(bounce, Zero, One),
     b |-> FClamp(slope_friction, Zero, One)]

Gravity_update(comp, point) ==
    IF point.fixed THEN point
    ELSE [point EXCEPT !.velocity[2] = FAdd(@, comp.a)]

Friction_update(comp, point) ==
    IF point.fixed THEN point
    ELSE [point EXCEPT !.velocity = <<FMul(@[1], comp.a), FMul(@[2], comp.a)>>]

Force_update(comp, point) ==
    IF point.fixed THEN point
    ELSE [point EXCEPT !.velocity = <<FAdd(@[1], comp.a), FAdd(@[2], comp.b)>>]

Collision_update(comp, point) == point

\* Component::update, dispatched on the component's type.
Component_update(comp, point) ==
    CASE comp.type = "Gravity" -> Gravity_update(comp, point)
      [] comp.type = "Friction" -> Friction_update(comp, point)
      [] comp.type = "Force" -> Force_update(comp, point)
      [] comp.type = "Collision" -> Collision_update(comp, point)

RECURSIVE run_components(_, _, _)
run_components(comps, i, point) ==
    IF i > Len(comps) THEN point
    ELSE run_components(comps, i + 1, Component_update(comps[i], point))

\* Point::update_components: the components are taken out of the point, each
\* is updated once in order, and the same list is put back.
update_components(p) ==
    [run_components(p.components, 1, [p EXCEPT !.components = <<>>])
        EXCEPT !.components = p.components]

\* ------------------------------------------------ Collision component

\* Vec2::normalize: the vector times the reciprocal of its length.
Vec2_scale(v, r) == <<FMul(v[1], r), FMul(v[2], r)>>

Vec2_normalize(v) == Vec2_scale(v, FDiv(One, Hypot(v[1], v[2])))

\* "Check if projection is within slope segment", then "Point is on slope if
\* it's close enough to the line".
on_slope_proj(point, slope_p1, g, t) ==
    IF FLt(t, Zero) \/ FGt(t, One) THEN FALSE
    ELSE FLt(Hypot(FSub(point.position[1], FAdd(slope_p1.position[1], FMul(t, g.dx))),
                   FSub(point.position[2], FAdd(slope_p1.position[2], FMul(t, g.dy)))),
             FAdd(point.radius, F(5, 1)))

\* "Project point onto slope line"
on_slope_t(point, slope_p1, g) ==
    on_slope_proj(point, slope_p1, g,
        FDiv(FAdd(FMul(FSub(point.position[1], slope_p1.position[1]), g.dx),
                  FMul(FSub(point.position[2], slope_p1.position[2]), g.dy)),
             FMul(g.distance, g.distance)))

is_on_slope(point, slope_p1, slope_p2) ==
    on_slope_t(point, slope_p1, Delta(slope_p1, slope_p2))

slope_velocity(comp, point, slope_dir, vel_proj) ==
    [point EXCEPT !.velocity =
        <<FMul(FMul(slope_dir[1], vel_proj), comp.b),
          FAdd(FMul(FMul(slope_dir[2], vel_proj), comp.b), F(1, 10))>>]

slope_project(comp, point, slope_dir) ==
    slope_velocity(comp, point, slope_dir,
                   FAdd(FMul(point.velocity[1], slope_dir[1]),
                        FMul(point.velocity[2], slope_dir[2])))

apply_slope_physics(comp, point, slope_p1, slope_p2) ==
    slope_project(comp, point,
        Vec2_normalize(<<FSub(slope_p2.position[1], slope_p1.position[1]),
                         FSub(slope_p2.position[2], slope_p1.position[2])>>))

\* The slope checks that end Collision::on_collide: each point is tested
\* against the "slope" whose two end points are both the other point.
slope_me(comp, me, other) ==
    IF is_on_slope(me, other, other) THEN apply_slope_physics(comp, me, other, other)
    ELSE me

slope_other(comp, me, other) ==
    <<me, IF is_on_slope(other, me, me) THEN apply_slope_physics(comp, other, me, me)
          ELSE other>>

slope_response(comp, pr) == slope_other(comp, slope_me(comp, pr[1], pr[2]), pr[2])

\* A variant of on_collide_apply without the tests of `fixed`;
\* FixedPointInvariance fails on it.
on_collide_apply_unguarded(me, other, impulse_x, impulse_y, sx, sy) ==
    <<[me EXCEPT !.velocity = <<FSub(@[1], impulse_x), FSub(@[2], impulse_y)>>,
                 !.position = <<FSub(@[1], sx), FSub(@[2], sy)>>],
      [other EXCEPT !.velocity = <<FAdd(@[1], impulse_x), FAdd(@[2], impulse_y)>>,
                    !.position = <<FAdd(@[1], sx), FAdd(@[2], sy)>>]>>

\* "Apply impulse" and "Separate points" of on_collide.
on_collide_apply(me, other, impulse_x, impulse_y, sx, sy) ==
    <<IF me.fixed THEN me
      ELSE [me EXCEPT !.velocity = <<FSub(@[1], impulse_x), FSub(@[2], impulse_y)>>,
                      !.position = <<FSub(@[1], sx), FSub(@[2], sy)>>],
      IF other.fixed THEN other
      ELSE [other EXCEPT !.velocity = <<FAdd(@[1], impulse_x), FAdd(@[2], impulse_y)>>,
                         !.position = <<FAdd(@[1], sx), FAdd(@[2], sy)>>]>>

on_collide_resolve(comp, me, other, nx, ny, overlap, impulse) ==
    slope_response(comp,
        on_collide_apply(me, other, FMul(impulse, nx), FMul(impulse, ny),
                         FMul(FMul(nx, overlap), Half), FMul(FMul(ny, overlap), Half)))

\* A variant of moving_toward that is true of NaN, as `!(x >= 0.0)` would be;
\* CoincidentPairSkipped fails on it.
moving_toward_not_ge(relative_vel_dot_normal) == ~FGe(relative_vel_dot_normal, Zero)

\* The test "Only resolve if objects are moving toward each other".
moving_toward(relative_vel_dot_normal) == FLt(relative_vel_dot_normal, Zero)

on_collide_along(comp, me, other, nx, ny, overlap, relative_vel_dot_normal) ==
    IF ~moving_toward(relative_vel_dot_normal) THEN <<me, other>>
    ELSE on_collide_resolve(comp, me, other, nx, ny, overlap,
             FMul(FNeg(FAdd(One, comp.a)), relative_vel_dot_normal))

\* relative_vel . normal, the relative velocity being other's minus me's.
relative_vel_dot_normal(me, other, nx, ny) ==
    FAdd(FMul(FSub(other.velocity[1], me.velocity[1]), nx),
         FMul(FSub(other.velocity[2], me.velocity[2]), ny))

on_collide_delta(comp, me, other, g, min_distance) ==
    IF ~FLt(g.distance, min_distance) THEN <<me, other>>
    ELSE on_collide_along(comp, me, other,
             FDiv(g.dx, g.distance), FDiv(g.dy, g.distance),
             FSub(min_distance, g.distance),
             relative_vel_dot_normal(me, other, FDiv(g.dx, g.distance),
                                     FDiv(g.dy, g.distance)))

\* <Collision as Component<Point>>::on_collide: the pair <<me, other>> after it.
Collision_on_collide(comp, me, other) ==
    on_collide_delta(comp, me, other, Delta(me, other), FAdd(me.radius, other.radius))

\* ------------------------------------------------------- the scene

V(x, y) == <<I(x), I(y)>>

\* Centre pairs: 15 apart on the x axis, 5 apart on a 3-4-5 slant, coincident.
Positions == { <<V(0, 0), V(15, 0)>>, <<V(1, 2), V(4, 6)>>, <<V(1, 2), V(1, 2)>> }

\* Radius pairs: sum 20 (every pair of centres overlaps) and sum 5.
Radii == { <<I(10), I(10)>>, <<I(2), I(3)>> }

\* Velocity pairs: toward each other on the x axis, away from each other,
\* and sliding past each other.
Velocities == { <<V(5, 0), V(-5, 0)>>, <<V(-5, 0), V(5, 0)>>, <<V(0, 3), V(0, -1)>> }

Masses == { <<I(1), I(1)>>, <<I(1), I(2)>>, <<I(0), I(0)>>, <<I(0), I(2)>> }

\* The components attached to each point of the scene.
SceneComponents ==
    <<Gravity_new(I(1)), Friction_new(Half), Force_new(I(3), I(4)),
      Collision_new(Half, F(4, 5))>>

Forces == { V(3, 4), V(0, -6) }

\* The time step passed to update (the example driver passes 1/60).
Dts == { F(1, 2) }

\* The last two panic in solve: equal indices, and an index past the end.
Constraints ==
    { Constraint_new(1, 2, I(5), Half), Constraint_new(2, 1, I(5), One),
      Constraint_new(1, 2, I(20), One), Constraint_new(2, 1, I(20), Half),
      Constraint_new(1, 1, I(5), One), Constraint_new(1, 3, I(5), Half) }

RECURSIVE add_components(_, _, _)
add_components(p, comps, i) ==
    IF i > Len(comps) THEN p
    ELSE add_components(add_component(p, comps[i]), comps, i + 1)

\* A point as the scene builds it: Point::new, the public fields fixed and
\* velocity assigned, the components added.
ScenePoint(pos, vel, mass, radius, fixed) ==
    add_components([Point_new(pos[1], pos[2], mass, radius)
                       EXCEPT !.velocity = vel, !.fixed = fixed],
                   SceneComponents, 1)

Idx == {1, 2}

\* points: the shared point collection; op: the last operation and its
\* arguments; pre: the point collection before that operation; steps: the
\* number of operations so far.  shape: a shape built by a factory of
\* objects/shapes.rs and its relaxation; frame: the simulation loop of
\* test/point_example.rs; quads: a pair of Quads.  Each specification below
\* runs one of these and leaves the others idle.
VARIABLES points, op, pre, steps, shape, frame, quads, ui

vars == <<points, op, pre, steps, shape, frame, quads, ui>>

Idle == [kind |-> "idle"]

NoOp == [name |-> "new", i |-> 0, j |-> 0, c |-> Constraint_new(0, 0, Zero, Zero),
         a |-> Zero, b |-> Zero]

Init ==
    /\ \E pos \in Positions, r \in Radii, v \in Velocities, m \in Masses,
          f1 \in BOOLEAN, f2 \in BOOLEAN :
          points = <<ScenePoint(pos[1], v[1], m[1], r[1], f1),
                     ScenePoint(pos[2], v[2], m[2], r[2], f2)>>
    /\ op = NoOp
    /\ pre = points
    /\ steps = 0
    /\ shape = Idle /\ frame = Idle /\ quads = Idle /\ ui = Idle

SmallNum(a) == a.k # "fin" \/ (FLe(a, I(MaxNum)) /\ FGe(a, I(-MaxNum)))

SmallPoint(p) ==
    \A v \in {p.position, p.velocity, p.force} : SmallNum(v[1]) /\ SmallNum(v[2])

\* One call on the collection; after a panic the program makes no call.
Step(name, i, j, c, a, b, new) ==
    /\ steps < MaxSteps
    /\ op.name # "panic"
    /\ \A k \in Idx : SmallPoint(points[k])
    /\ points' = new
    /\ op' = [name |-> name, i |-> i, j |-> j, c |-> c, a |-> a, b |-> b]
    /\ pre' = points
    /\ steps' = steps + 1
    /\ UNCHANGED <<shape, frame, quads, ui>>

ApplyForce(i, f) ==
    Step("apply_force", i, 0, NoOp.c, f[1], f[2],
         [points EXCEPT ![i] = apply_force(@, f[1], f[2])])

Update(i, dt) ==
    Step("update", i, 0, NoOp.c, dt, Zero, [points EXCEPT ![i] = update(@, dt)])

UpdateComponents(i) ==
    Step("update_components", i, 0, NoOp.c, Zero, Zero,
         [points EXCEPT ![i] = update_components(@)])

\* constraint.solve(&mut points): the panic of its indexing, or the solve.
Solve(c) ==
    IF solve_panics(c, points)
    THEN Step("panic", c.point1, c.point2, c, Zero, Zero, points)
    ELSE Step("solve", c.point1, c.point2, c, Zero, Zero, solve(c, points))

ResolveCollision(i, j) ==
    LET r == resolve_collision(points[i], points[j])
    IN  Step("resolve_collision", i, j, NoOp.c, Zero, Zero,
             [points EXCEPT ![i] = r[1], ![j] = r[2]])

\* on_collide of the k-th component of point i (a Collision), with me = point
\* i and other = point j.
OnCollide(i, j, k) ==
    /\ points[i].components[k].type = "Collision"
    /\ LET r == Collision_on_collide(points[i].components[k], points[i], points[j])
       IN  Step("on_collide", i, j, NoOp.c, Zero, Zero,
                [points EXCEPT ![i] = r[1], ![j] = r[2]])

Next ==
    \/ \E i \in Idx, f \in Forces : ApplyForce(i, f)
    \/ \E i \in Idx, dt \in Dts : Update(i, dt)
    \/ \E i \in Idx : UpdateComponents(i)
    \/ \E c \in Constraints : Solve(c)
    \/ \E i \in Idx : \E j \in Idx \ {i} : ResolveCollision(i, j)
    \/ \E i \in Idx : \E j \in Idx \ {i}, k \in 1..Len(points[i].components) :
          OnCollide(i, j, k)

Spec == Init /\ [][Next]_vars

\* ------------------------------------------- shapes (objects/shapes.rs)

\* The relaxation passes of one frame: `for _ in 0..8`.
Passes == 8

ShapeConfig(gravity, friction, bounce, slope_friction, point_radius, point_mass, constraint_stiffness, fixed) ==
    [gravity |-> gravity, friction |-> friction, bounce |-> bounce,
     slope_friction |-> slope_friction, point_radius |-> point_radius,
     point_mass |-> point_mass, constraint_stiffness |-> constraint_stiffness,
     fixed |-> fixed]

\* <ShapeConfig as Default>::default
ShapeConfig_default ==
    ShapeConfig(I(10), F(19, 20), F(1, 5), F(17, 20), I(15), I(1), F(19, 20), FALSE)

\* "Calculate radius and angle from center to size point"
shape_radius(center, size_point) ==
    Hypot(FSub(size_point[1], center[1]), FSub(size_point[2], center[2]))

shape_angle(center, size_point) ==
    atan2(FSub(size_point[2], center[2]), FSub(size_point[1], center[1]))

\* (center.x + radius * vertex_angle.cos(), center.y + radius * vertex_angle.sin())
shape_vertex(center, radius, vertex_angle) ==
    <<FAdd(center[1], FMul(radius, cos(vertex_angle))),
      FAdd(center[2], FMul(radius, sin(vertex_angle)))>>

\* Point::new(x, y, config.point_mass, config.point_radius, config.color)
\* followed by point.fixed = config.fixed.
shape_point(pos, config) ==
    [Point_new(pos[1], pos[2], config.point_mass, config.point_radius)
        EXCEPT !.fixed = config.fixed]

\* Constraint::new(i, next, distance, config.constraint_stiffness, ..) with
\* distance the distance between points i and next; indices count from 1.
shape_edge(pts, i, next, config) ==
    Constraint_new(i, next,
        Hypot(FSub(pts[i].position[1], pts[next].position[1]),
              FSub(pts[i].position[2], pts[next].position[2])),
        config.constraint_stiffness)

\* "Add physics components"
add_physics(pts, config) ==
    [i \in 1..Len(pts) |->
        add_component(
            add_component(add_component(pts[i], Gravity_new(config.gravity)),
                          Friction_new(config.friction)),
            Collision_new(config.bounce, config.slope_friction))]

\* A factory's result is the pair (points, constraints); panics tells that
\* the factory panicked instead of returning.
create_triangle_from(pts, config) ==
    [panics |-> FALSE,
     points |-> add_physics(pts, config),
     constraints |-> [i \in 1..3 |-> shape_edge(pts, i, (i % 3) + 1, config)]]

\* The vertex i (from 0) is at angle + (i as f32 * 2.0 * PI) / 3.0.
create_triangle(center, size_point, config) ==
    create_triangle_from(
        [i \in 1..3 |->
            shape_point(
                shape_vertex(center, shape_radius(center, size_point),
                    FAdd(shape_angle(center, size_point),
                         FDiv(FMul(FMul(I(i - 1), I(2)), PI), I(3)))),
                config)],
        config)

\* "Add cross-bracing for stability" of create_square: both diagonals, with
\* rest length diagonal.
square_braces(diagonal, config) ==
    <<Constraint_new(1, 3, diagonal, config.constraint_stiffness),
      Constraint_new(2, 4, diagonal, config.constraint_stiffness)>>

create_square_from(pts, radius, config) ==
    [panics |-> FALSE,
     points |-> add_physics(pts, config),
     constraints |-> [i \in 1..4 |-> shape_edge(pts, i, (i % 4) + 1, config)]
                     \o square_braces(FMul(radius, FSqrt(I(2))), config)]

\* The vertex i (from 0) is at angle + (i as f32 * PI) / 2.0.
create_square(center, size_point, config) ==
    create_square_from(
        [i \in 1..4 |->
            shape_point(
                shape_vertex(center, shape_radius(center, size_point),
                    FAdd(shape_angle(center, size_point),
                         FDiv(FMul(I(i - 1), PI), I(2)))),
                config)],
        shape_radius(center, size_point), config)

create_circle_from(pts, num_points, config) ==
    [panics |-> FALSE,
     points |-> add_physics(pts, config),
     constraints |->
        [i \in 1..num_points |-> shape_edge(pts, i, (i % num_points) + 1, config)]
        \o [i \in 1..num_points |->
              shape_edge(pts, i, ((i - 1 + (num_points \div 2)) % num_points) + 1,
                         config)]]

\* The point i (from 0) is at (i as f32 * 2.0 * PI) / (num_points as f32).
create_circle_at(center, radius, num_points, config) ==
    create_circle_from(
        [i \in 1..num_points |->
            shape_point(
                shape_vertex(center, radius,
                    FDiv(FMul(FMul(I(i - 1), I(2)), PI), I(num_points))),
                config)],
        num_points, config)

create_circle(center, size_point, num_points, config) ==
    create_circle_at(center, shape_radius(center, size_point), num_points, config)

\* A variant of create_line_from that adds the components to fixed lines too;
\* ShapeComponentsUnlessFixedLine fails on it.
create_line_from_always(pts, num_points, config) ==
    [panics |-> num_points = 0,
     points |-> IF num_points = 0 THEN <<>> ELSE add_physics(pts, config),
     constraints |-> [i \in 1..(num_points - 1) |-> shape_edge(pts, i, i + 1, config)]]

\* "Create constraints between adjacent points" and "Add physics components
\* if not fixed".  For num_points = 0 the bound num_points - 1 of the
\* constraint loop underflows usize: the debug build panics on the
\* subtraction and the release build on points[0]; nothing is returned.
create_line_from(pts, num_points, config) ==
    [panics |-> num_points = 0,
     points |-> IF num_points = 0 THEN <<>>
                ELSE IF ~config.fixed THEN add_physics(pts, config) ELSE pts,
     constraints |-> [i \in 1..(num_points - 1) |-> shape_edge(pts, i, i + 1, config)]]

\* The point of create_line at t = i / (num_points - 1).
line_point(start, end, t, config) ==
    shape_point(<<FAdd(start[1], FMul(FSub(end[1], start[1]), t)),
                  FAdd(start[2], FMul(FSub(end[2], start[2]), t))>>, config)

create_line(start, end, num_points, config) ==
    create_line_from(
        [i \in 1..num_points |->
            line_point(start, end, FDiv(I(i - 1), I(num_points - 1)), config)],
        num_points, config)

\* The inputs of the factories.
ShapeCenters == { V(0, 0) }

ShapeSizePoints == { V(2, 2), V(3, 0) }

ShapeConfigs ==
    { [ShapeConfig_default EXCEPT !.fixed = f] : f \in BOOLEAN }

NumPoints == 0..4

\* A factory's result with the state of its relaxation: the pass under way,
\* the constraint to solve next, and whether the factory or a solve has
\* panicked.
Built(kind, center, size_point, num_points, config, made) ==
    [kind |-> kind, center |-> center, size_point |-> size_point,
     num_points |-> num_points, config |-> config,
     points |-> made.points, constraints |-> made.constraints,
     pass |-> 0, k |-> 1, panicked |-> made.panics]

InitShapes ==
    /\ \E c \in ShapeCenters, sp \in ShapeSizePoints, cfg \in ShapeConfigs :
        \/ shape = Built("create_triangle", c, sp, 3, cfg, create_triangle(c, sp, cfg))
        \/ shape = Built("create_square", c, sp, 4, cfg, create_square(c, sp, cfg))
        \/ \E n \in NumPoints :
            shape = Built("create_circle", c, sp, n, cfg, create_circle(c, sp, n, cfg))
        \/ \E n \in NumPoints :
            shape = Built("create_line", c, sp, n, cfg, create_line(c, sp, n, cfg))
    /\ points = <<>> /\ op = NoOp /\ pre = <<>> /\ steps = 0
    /\ frame = Idle /\ quads = Idle /\ ui = Idle

Relaxing == shape.pass < Passes /\ ~shape.panicked

\* constraint.solve(&mut points) for the next constraint of the pass.
RelaxSolve ==
    /\ Relaxing /\ shape.k <= Len(shape.constraints)
    /\ ~solve_panics(shape.constraints[shape.k], shape.points)
    /\ shape' = [shape EXCEPT
                   !.points = solve(shape.constraints[shape.k], @),
                   !.k = @ + 1]
    /\ UNCHANGED <<points, op, pre, steps, frame, quads, ui>>

RelaxPanic ==
    /\ Relaxing /\ shape.k <= Len(shape.constraints)
    /\ solve_panics(shape.constraints[shape.k], shape.points)
    /\ shape' = [shape EXCEPT !.panicked = TRUE]
    /\ UNCHANGED <<points, op, pre, steps, frame, quads, ui>>

\* The end of one pass over the constraints.
RelaxPassDone ==
    /\ Relaxing /\ shape.k > Len(shape.constraints)
    /\ shape' = [shape EXCEPT !.pass = @ + 1, !.k = 1]
    /\ UNCHANGED <<points, op, pre, steps, frame, quads, ui>>

NextShapes == RelaxSolve \/ RelaxPanic \/ RelaxPassDone

SpecShapes == InitShapes /\ [][NextShapes]_vars

\* ----------------------------------------------- Quad (objects/quad.rs)

\* Number of operations applied to the Quads after construction.
MaxQuadSteps == 3

Quad_new(x, y, w, h) ==
    [position |-> <<x, y>>, size |-> <<w, h>>, velocity_x |-> Zero,
     velocity_y |-> Zero, components |-> <<>>]

Quad_add_component(quad, comp) == [quad EXCEPT !.components = Append(@, comp)]

\* Component<Quad>::update of Gravity, Friction, Force and Collision.
Quad_Component_update(comp, quad) ==
    CASE comp.type = "Gravity" -> [quad EXCEPT !.velocity_y = FAdd(@, comp.a)]
      [] comp.type = "Friction" ->
            [quad EXCEPT !.velocity_x = FMul(@, comp.a), !.velocity_y = FMul(@, comp.a)]
      [] comp.type = "Force" ->
            [quad EXCEPT !.velocity_x = FAdd(@, comp.a), !.velocity_y = FAdd(@, comp.b)]
      [] comp.type = "Collision" -> quad

\* A variant of Quad_run_components that updates the components from the
\* last to the first; ComponentsRunOnceInOrder fails on it.
RECURSIVE Quad_run_components_backwards(_, _, _)
Quad_run_components_backwards(comps, i, quad) ==
    IF i > Len(comps) THEN quad
    ELSE Quad_Component_update(comps[i],
                               Quad_run_components_backwards(comps, i + 1, quad))

RECURSIVE Quad_run_components(_, _, _)
Quad_run_components(comps, i, quad) ==
    IF i > Len(comps) THEN quad
    ELSE Quad_run_components(comps, i + 1, Quad_Component_update(comps[i], quad))

Quad_update_components(quad) ==
    [Quad_run_components(quad.components, 1, [quad EXCEPT !.components = <<>>])
        EXCEPT !.components = quad.components]

\* A variant of Quad_is_colliding_with that counts touching edges as a
\* collision; QuadOverlapTest fails on it.
Quad_is_colliding_with_touching(quad, other) ==
    /\ FLe(quad.position[1], FAdd(other.position[1], other.size[1]))
    /\ FGe(FAdd(quad.position[1], quad.size[1]), other.position[1])
    /\ FLe(quad.position[2], FAdd(other.position[2], other.size[2]))
    /\ FGe(FAdd(quad.position[2], quad.size[2]), other.position[2])

\* x1 < x2 + w2 && x1 + w1 > x2 && y1 < y2 + h2 && y1 + h1 > y2
Quad_is_colliding_with(quad, other) ==
    /\ FLt(quad.position[1], FAdd(other.position[1], other.size[1]))
    /\ FGt(FAdd(quad.position[1], quad.size[1]), other.position[1])
    /\ FLt(quad.position[2], FAdd(other.position[2], other.size[2]))
    /\ FGt(FAdd(quad.position[2], quad.size[2]), other.position[2])

\* The type every element of Quad.components has.
BoxDynComponent == "Box<dyn Component<Quad>>"

\* The closure of remove_component::<T>: TypeId::of::<T>() !=
\* TypeId::of::<Box<dyn Component<Quad>>>(); it does not look at comp.
remove_component_keeps(T, comp) == T # BoxDynComponent

\* Quad::remove_component::<T>: components.retain(closure).
Quad_remove_component(quad, T) ==
    [quad EXCEPT !.components =
        SelectSeq(@, LAMBDA comp : remove_component_keeps(T, comp))]

\* <Collision as Component<Quad>>::on_collide.  "Apply impulse" and
\* "Separate quads": the pair <<me, other>> after them.
Quad_on_collide_apply(me, other, impulse_x, impulse_y, sx, sy) ==
    <<[me EXCEPT !.velocity_x = FSub(@, impulse_x), !.velocity_y = FSub(@, impulse_y),
                 !.position = <<FSub(@[1], sx), FSub(@[2], sy)>>],
      [other EXCEPT !.velocity_x = FAdd(@, impulse_x), !.velocity_y = FAdd(@, impulse_y),
                    !.position = <<FAdd(@[1], sx), FAdd(@[2], sy)>>]>>

\* impulse = -(1.0 + self.bounce) * relative_vel_dot_normal
Quad_on_collide_resolve(me, other, nx, ny, overlap, impulse) ==
    Quad_on_collide_apply(me, other, FMul(impulse, nx), FMul(impulse, ny),
                          FMul(FMul(nx, overlap), Half), FMul(FMul(ny, overlap), Half))

\* "Only resolve if objects are moving toward each other"
Quad_on_collide_along(comp, me, other, nx, ny, overlap, rel_vel_dot_normal) ==
    IF ~moving_toward(rel_vel_dot_normal) THEN <<me, other>>
    ELSE Quad_on_collide_resolve(me, other, nx, ny, overlap,
             FMul(FNeg(FAdd(One, comp.a)), rel_vel_dot_normal))

\* relative_vel . normal, the relative velocity being other's minus me's.
Quad_relative_vel_dot_normal(me, other, nx, ny) ==
    FAdd(FMul(FSub(other.velocity_x, me.velocity_x), nx),
         FMul(FSub(other.velocity_y, me.velocity_y), ny))

\* "Check for collision": if distance < min_distance
Quad_on_collide_delta(comp, me, other, dx, dy, distance, min_distance) ==
    IF ~FLt(distance, min_distance) THEN <<me, other>>
    ELSE Quad_on_collide_along(comp, me, other, FDiv(dx, distance), FDiv(dy, distance),
             FSub(min_distance, distance),
             Quad_relative_vel_dot_normal(me, other, FDiv(dx, distance),
                                          FDiv(dy, distance)))

\* dx, dy and distance are taken between the two `position` fields, and
\* min_distance = (me.size.0 + other.size.0) * 0.5.
Quad_on_collide(comp, me, other) ==
    Quad_on_collide_delta(comp, me, other,
        FSub(other.position[1], me.position[1]),
        FSub(other.position[2], me.position[2]),
        Hypot(FSub(other.position[1], me.position[1]),
              FSub(other.position[2], me.position[2])),
        FMul(FAdd(me.size[1], other.size[1]), Half))

\* The inputs of the Quad operations: rectangles (x, y, w, h) that overlap,
\* touch along an edge, lie apart, have no width, or lie inside the first;
\* the components added;
\* the type arguments of remove_component.
QuadBoxes ==
    { <<I(0), I(0), I(10), I(10)>>, <<I(5), I(5), I(10), I(10)>>,
      <<I(10), I(0), I(10), I(10)>>, <<I(20), I(20), I(5), I(5)>>,
      <<I(2), I(2), I(0), I(5)>>, <<I(8), I(0), I(2), I(10)>> }

QuadComponents ==
    { Gravity_new(I(1)), Friction_new(Half), Force_new(I(3), I(4)),
      Collision_new(Half, F(4, 5)) }

ComponentTypes == { "Gravity", "Friction", "Force", "Collision", BoxDynComponent }

InitQuads ==
    /\ \E a \in QuadBoxes, b \in QuadBoxes :
        quads = <<Quad_new(a[1], a[2], a[3], a[4]), Quad_new(b[1], b[2], b[3], b[4])>>
    /\ op = [name |-> "new", i |-> 0, j |-> 0, T |-> "", result |-> FALSE]
    /\ pre = quads
    /\ steps = 0
    /\ points = <<>> /\ shape = Idle /\ frame = Idle /\ ui = Idle

QuadStep(name, i, j, T, result, new) ==
    /\ steps < MaxQuadSteps
    /\ quads' = new
    /\ op' = [name |-> name, i |-> i, j |-> j, T |-> T, result |-> result]
    /\ pre' = quads
    /\ steps' = steps + 1
    /\ UNCHANGED <<points, shape, frame, ui>>

QuadAddComponent(i, comp) ==
    QuadStep("add_component", i, 0, comp.type, FALSE,
             [quads EXCEPT ![i] = Quad_add_component(@, comp)])

QuadUpdateComponents(i) ==
    QuadStep("update_components", i, 0, "", FALSE,
             [quads EXCEPT ![i] = Quad_update_components(@)])

QuadRemoveComponent(i, T) ==
    QuadStep("remove_component", i, 0, T, FALSE,
             [quads EXCEPT ![i] = Quad_remove_component(@, T)])

QuadIsCollidingWith(i, j) ==
    QuadStep("is_colliding_with", i, j, "",
             Quad_is_colliding_with(quads[i], quads[j]), quads)

\* The Collision component whose on_collide is called on a pair of Quads.
QuadCollisions == { Collision_new(Half, F(4, 5)) }

QuadOnCollide(i, j, comp) ==
    QuadStep("on_collide", i, j, "", FALSE,
             [quads EXCEPT ![i] = Quad_on_collide(comp, quads[i], quads[j])[1],
                           ![j] = Quad_on_collide(comp, quads[i], quads[j])[2]])

NextQuads ==
    \/ \E i \in Idx, comp \in QuadComponents : QuadAddComponent(i, comp)
    \/ \E i \in Idx : QuadUpdateComponents(i)
    \/ \E i \in Idx, T \in ComponentTypes : QuadRemoveComponent(i, T)
    \/ \E i \in Idx : \E j \in Idx \ {i} : QuadIsCollidingWith(i, j)
    \/ \E i \in Idx : \E j \in Idx \ {i} : \E comp \in QuadCollisions :
          QuadOnCollide(i, j, comp)

SpecQuads == InitQuads /\ [][NextQuads]_vars

\* ------------------------- the simulation loop (test/point_example.rs)

\* Number of iterations of the loop that are followed.
MaxFrames == 3

\* `x as i32` for an f32 x that is a whole number or rounded up to one
\* (x.ceil() as i32): the cast saturates and sends NaN to 0.
ceil_i32(a) ==
    IF a.k = "nan" \/ (a.k = "fin" /\ a.m = 0) THEN 0
    ELSE IF a.k = "inf" \/ (a.e >= 0 /\ BitLen(a.m) + a.e > 31)
    THEN (IF a.s = 1 THEN 2147483647 ELSE (-2147483647) - 1)
    ELSE IF a.e >= 0 THEN a.s * a.m * (2 ^ a.e)
    ELSE IF a.e <= -30 THEN (IF a.s = 1 THEN 1 ELSE 0)
    ELSE IF a.s = 1 THEN (a.m + (2 ^ (-a.e)) - 1) \div (2 ^ (-a.e))
    ELSE -(a.m \div (2 ^ (-a.e)))

\* (i as f32 * 2.0 * std::f32::consts::PI) / (n as f32)
example_angle(i, n) == FDiv(FMul(FMul(I(i), I(2)), PI), I(n))

\* (center_x + radius * angle.cos(), center_y + radius * angle.sin())
example_around(center_x, center_y, radius, angle) ==
    <<FAdd(center_x, FMul(radius, cos(angle))), FAdd(center_y, FMul(radius, sin(angle)))>>

\* Point::new(x, y, mass, point_radius, color)
example_point(pos, mass, point_radius) == Point_new(pos[1], pos[2], mass, point_radius)

\* "Create points": n points of mass 1 around the centre.  Indices are
\* 1-based here, so point i of the code is element i + 1.
example_ring(center_x, center_y, radius, n, point_radius) ==
    [i \in 1..n |->
        example_point(example_around(center_x, center_y, radius, example_angle(i - 1, n)),
                      One, point_radius)]

\* Constraint::new(i, other, distance, stiffness, color) with the distance
\* measured between the two points.
example_constraint(pts, i, other, stiffness) ==
    Constraint_new(i, other,
        Hypot(FSub(pts[i].position[1], pts[other].position[1]),
              FSub(pts[i].position[2], pts[other].position[2])),
        stiffness)

\* next = (i + 1) % n
example_edges(pts, n, stiffness) ==
    [i \in 1..n |-> example_constraint(pts, i, (i % n) + 1, stiffness)]

\* opposite = (i + n/2) % n
example_braces(pts, n, stiffness) ==
    [i \in 1..n |-> example_constraint(pts, i, ((i - 1 + (n \div 2)) % n) + 1, stiffness)]

\* point.add_component(Gravity::new(gravity)); point.add_component(Friction::new(friction))
example_behaviors(pts, gravity, friction) ==
    [i \in 1..Len(pts) |->
        add_component(add_component(pts[i], Gravity_new(gravity)), Friction_new(friction))]

polygon_constraints(pts, sides, edge_stiffness, brace_stiffness) ==
    example_edges(pts, sides, edge_stiffness)
        \o (IF sides > 3 THEN example_braces(pts, sides, brace_stiffness) ELSE <<>>)

polygon_from(pts, sides, gravity, is_pentagon) ==
    [points |-> example_behaviors(pts, gravity,
                                  IF is_pentagon THEN F(95, 100) ELSE F(97, 100)),
     constraints |-> polygon_constraints(pts, sides,
                         IF is_pentagon THEN F(98, 100) ELSE F(97, 100),
                         IF is_pentagon THEN F(96, 100) ELSE F(95, 100))]

\* create_polygon of point_example.rs: the points and the constraints, whose
\* indices are those of the polygon's own points.
create_polygon(center_x, center_y, radius, sides, gravity, is_pentagon) ==
    polygon_from(example_ring(center_x, center_y, radius, sides, I(15)),
                 sides, gravity, is_pentagon)

example_circle_from(pts, num_points, gravity) ==
    [points |-> example_behaviors(pts, gravity, F(92, 100)),
     constraints |-> example_edges(pts, num_points, F(98, 100))
                         \o example_braces(pts, num_points, F(96, 100))]

\* create_circle of point_example.rs.
example_create_circle(center_x, center_y, radius, num_points, gravity) ==
    example_circle_from(example_ring(center_x, center_y, radius, num_points, I(12)),
                        num_points, gravity)

\* Point::new(start_x + dx * t, start_y + dy * t, 0.0, 12.0, color); fixed = true;
\* Friction::new(0.85)
slope_point(start_x, start_y, dx, dy, t) ==
    add_component([example_point(<<FAdd(start_x, FMul(dx, t)), FAdd(start_y, FMul(dy, t))>>,
                                 Zero, I(12)) EXCEPT !.fixed = TRUE],
                  Friction_new(F(85, 100)))

\* The points for i in 0..=steps with t = i as f32 / steps as f32, and the
\* constraints (i, i + 1) for i in 0..points.len() - 1.  For steps < 0 no
\* point is pushed and points.len() - 1 underflows usize: the debug build
\* panics on the subtraction, the release build pushes constraints until the
\* allocation fails; nothing is returned.
slope_steps(start_x, start_y, dx, dy, spacing, n_steps) ==
    [panics |-> n_steps < 0,
     points |-> [i \in 1..(n_steps + 1) |->
                    slope_point(start_x, start_y, dx, dy, FDiv(I(i - 1), I(n_steps)))],
     constraints |-> [i \in 1..n_steps |-> Constraint_new(i, i + 1, spacing, F(99, 100))]]

\* create_slope of point_example.rs; steps = (length / spacing).ceil() as i32.
create_slope_by(start_x, start_y, dx, dy, spacing) ==
    slope_steps(start_x, start_y, dx, dy, spacing,
                ceil_i32(FDiv(Hypot(dx, dy), spacing)))

create_slope(start_x, start_y, end_x, end_y, spacing) ==
    create_slope_by(start_x, start_y, FSub(end_x, start_x), FSub(end_y, start_y), spacing)

\* (radius, sides, gravity) of shape_types.
shape_types == << <<30, 4, 50>>, <<25, 3, 30>>, <<35, 5, 10>>, <<20, 6, 40>> >>

\* (x, y, radius, points, gravity) of circles.
circles == << <<200, 300, 40, 16, 20>>, <<600, 300, 30, 12, 15>> >>

\* (start_x, start_y, end_x, end_y, spacing) of slopes, ground_y = 500.
slopes ==
    << <<100, 500, 300, 450, 8>>, <<300, 450, 500, 350, 8>>,
       <<500, 350, 700, 400, 8>>, <<700, 400, 900, 500, 8>> >>

\* for p in points.iter_mut() { p.add_component(Box::new(Collision::new(..))) },
\* for the slopes after p.fixed = true.
with_collision(made, fixed, collision) ==
    [made EXCEPT !.points =
        [i \in 1..Len(made.points) |->
            add_component([made.points[i] EXCEPT !.fixed = @ \/ fixed], collision)]]

polygon_of(pos, type) ==
    create_polygon(pos[1], pos[2], I(type[1]), type[2], I(type[3]), type[2] = 5)

\* The polygon of iteration i of `for i in 0..num_shapes`, on the circle of
\* radius 150 around (400, 200), of type shape_types[i % shape_types.len()].
example_shape(i) ==
    polygon_of(example_around(I(400), I(200), I(150), example_angle(i, 8)),
               shape_types[(i % Len(shape_types)) + 1])

example_circle(c) == example_create_circle(I(c[1]), I(c[2]), I(c[3]), c[4], I(c[5]))

example_slope(s) == create_slope(I(s[1]), I(s[2]), I(s[3]), I(s[4]), I(s[5]))

\* all_points.append(&mut points); all_constraints.append(&mut constraints):
\* the constraints keep the indices they were made with.
append_made(all, made) ==
    [points |-> all.points \o made.points, constraints |-> all.constraints \o made.constraints]

\* The sliding point, pushed without constraints.
sliding_point ==
    add_component(add_component(add_component(
        example_point(<<I(100), I(100)>>, One, I(20)),
        Gravity_new(I(5))), Friction_new(F(99, 100))), Collision_new(Zero, Zero))

\* The things run_point_example makes before its loop, in order: 8 polygons,
\* 2 circles, the sliding point, 4 slopes.
example_made(n) ==
    IF n <= 8 THEN with_collision(example_shape(n - 1), FALSE, Collision_new(Half, F(8, 10)))
    ELSE IF n <= 10
    THEN with_collision(example_circle(circles[n - 8]), FALSE, Collision_new(Half, F(8, 10)))
    ELSE IF n = 11 THEN [points |-> <<sliding_point>>, constraints |-> <<>>]
    ELSE with_collision(example_slope(slopes[n - 11]), TRUE, Collision_new(Zero, F(85, 100)))

RECURSIVE example_scene(_)
example_scene(n) ==
    IF n = 0 THEN [points |-> <<>>, constraints |-> <<>>]
    ELSE append_made(example_scene(n - 1), example_made(n))

\* all_points and all_constraints when the loop is entered.
all_points == example_scene(15).points

all_constraints == example_scene(15).constraints

\* point.update(1.0/60.0)
FrameDt == F(1, 60)

\* if point.velocity.0.abs() > 3.0 || point.velocity.1.abs() > 3.0 { 0.3 } else { 0.5 }
damping(p) ==
    IF \/ FGt(p.velocity[1], I(3)) \/ FLt(p.velocity[1], I(-3))
       \/ FGt(p.velocity[2], I(3)) \/ FLt(p.velocity[2], I(-3))
    THEN F(3, 10) ELSE Half

\* if !point_i.fixed { position += n * push; velocity *= damping }
separate_i(p, nx, ny, push) ==
    IF p.fixed THEN p
    ELSE [p EXCEPT !.position = <<FAdd(@[1], FMul(nx, push)), FAdd(@[2], FMul(ny, push))>>,
                   !.velocity = <<FMul(@[1], damping(p)), FMul(@[2], damping(p))>>]

\* if !point_j.fixed { position -= n * push; velocity *= damping }
separate_j(p, nx, ny, push) ==
    IF p.fixed THEN p
    ELSE [p EXCEPT !.position = <<FSub(@[1], FMul(nx, push)), FSub(@[2], FMul(ny, push))>>,
                   !.velocity = <<FMul(@[1], damping(p)), FMul(@[2], damping(p))>>]

\* if distance < min_distance * 0.95 { ... }: the pair after the forced
\* separation, with push = (min_distance - distance) * 0.2.
force_separation(point_i, point_j, dx, dy, distance, min_distance) ==
    IF FLt(distance, FMul(min_distance, F(19, 20)))
    THEN <<separate_i(point_i, FDiv(dx, distance), FDiv(dy, distance),
                      FMul(FSub(min_distance, distance), F(1, 5))),
           separate_j(point_j, FDiv(dx, distance), FDiv(dy, distance),
                      FMul(FSub(min_distance, distance), F(1, 5)))>>
    ELSE <<point_i, point_j>>

\* if distance < min_distance * 1.05
collision_detected(distance, min_distance) ==
    FLt(distance, FMul(min_distance, F(21, 20)))

\* point_i.resolve_collision(point_j) on the pair left by the separation.
collide_resolve(pair) == resolve_collision(pair[1], pair[2])

\* The body of the inner collision loop for one pair.
collide_pair(point_i, point_j, dx, dy, distance, min_distance) ==
    IF collision_detected(distance, min_distance)
    THEN collide_resolve(force_separation(point_i, point_j, dx, dy,
                                          distance, min_distance))
    ELSE <<point_i, point_j>>

\* dx = point_i.position.0 - point_j.position.0, dy likewise
pair_dx(point_i, point_j) == FSub(point_i.position[1], point_j.position[1])

pair_dy(point_i, point_j) == FSub(point_i.position[2], point_j.position[2])

pair_distance(point_i, point_j) ==
    Hypot(pair_dx(point_i, point_j), pair_dy(point_i, point_j))

pair_detected(point_i, point_j) ==
    collision_detected(pair_distance(point_i, point_j),
                       FAdd(point_i.radius, point_j.radius))

check_collision(point_i, point_j) ==
    collide_pair(point_i, point_j, pair_dx(point_i, point_j),
                 pair_dy(point_i, point_j), pair_distance(point_i, point_j),
                 FAdd(point_i.radius, point_j.radius))

\* The inner loop over the points lo..hi: the first j for which the pair
\* (i, j) is detected, 0 when there is none.  The search halves the range
\* and looks into the upper half when the lower half has no such j.
RECURSIVE first_in_row(_, _, _, _)
RECURSIVE row_or_else(_, _, _, _, _)
first_in_row(pts, i, lo, hi) ==
    IF lo > hi THEN 0
    ELSE IF lo = hi THEN (IF pair_detected(pts[i], pts[lo]) THEN lo ELSE 0)
    ELSE row_or_else(first_in_row(pts, i, lo, (lo + hi) \div 2),
                     pts, i, ((lo + hi) \div 2) + 1, hi)

row_or_else(found, pts, i, lo, hi) ==
    IF found # 0 THEN found ELSE first_in_row(pts, i, lo, hi)

\* The first detected pair of the rows lo..hi, <<0, 0>> when there is none.
RECURSIVE first_in_rows(_, _, _)
RECURSIVE rows_or_else(_, _, _, _)
first_in_rows(pts, lo, hi) ==
    IF lo > hi THEN <<0, 0>>
    ELSE IF lo = hi THEN rows_or_else(<<lo, first_in_row(pts, lo, lo + 1, Len(pts))>>, pts, 1, 0)
    ELSE rows_or_else(first_in_rows(pts, lo, (lo + hi) \div 2),
                      pts, ((lo + hi) \div 2) + 1, hi)

rows_or_else(found, pts, lo, hi) ==
    IF found[2] # 0 THEN found ELSE first_in_rows(pts, lo, hi)

\* The two loops from the pair (i, j) on: the first detected pair, <<0, 0>>
\* when the loops end without one.  The pairs passed over are left as they are.
next_detected(pts, i, j) ==
    rows_or_else(<<i, first_in_row(pts, i, j, Len(pts))>>, pts, i + 1, Len(pts) - 1)

\* if frame_count - last_collision_print >= 30 { println!(..); last_collision_print = frame_count }
collision_print(fr) ==
    IF fr.frame_count - fr.last_collision_print >= 30 THEN fr.frame_count
    ELSE fr.last_collision_print

\* if distance < 100.0 { point.add_component(Box::new(Force::new(Vec2::new(dx * 0.1, dy * 0.1)))) }
input_near(point, dx, dy) ==
    IF FLt(Hypot(dx, dy), I(100))
    THEN add_component(point, Force_new(FMul(dx, F(1, 10)), FMul(dy, F(1, 10))))
    ELSE point

\* dx = mouse_x - point.position.0, dy likewise
input_point(point, mouse) ==
    input_near(point, FSub(mouse.pos[1], point.position[1]),
               FSub(mouse.pos[2], point.position[2]))

\* if is_mouse_button_down(MouseButton::Left) { for point in all_points ... }
add_input(pts, mouse) ==
    IF mouse.down THEN [i \in 1..Len(pts) |-> input_point(pts[i], mouse)] ELSE pts

\* is_mouse_button_down and mouse_position as sampled at the end of a frame:
\* button up, or button down below the sliding point.
Mouse == { [down |-> FALSE, pos |-> V(0, 0)], [down |-> TRUE, pos |-> V(100, 150)] }

\* The phase log of the frame: a phase is entered once for every run of
\* consecutive steps in it.
logged(done, phase) ==
    IF done # <<>> /\ done[Len(done)] = phase THEN done ELSE Append(done, phase)

\* The last step of the loop: its name, the indices of the points it was
\* about and those points as it found them.
FrameStep(name, i, j, before) == [name |-> name, i |-> i, j |-> j, before |-> before]

\* The state in which the loop is entered: frame_count = 0 and
\* last_collision_print = 0, no mouse sample taken yet.
InitFrame ==
    /\ frame = [points |-> all_points, pc |-> "begin", i |-> 1, j |-> 1, pass |-> 0,
                k |-> 1, frame_count |-> 0, last_collision_print |-> 0,
                collision_count |-> 0, mouse_down |-> FALSE, done |-> <<>>,
                last |-> FrameStep("none", 0, 0, <<>>)]
    /\ points = <<>> /\ op = NoOp /\ pre = <<>> /\ steps = 0
    /\ shape = Idle /\ quads = Idle /\ ui = Idle

\* A loop without the constraint passes: from the last point.update straight
\* to the collision loop.
after_update_skipping_passes(fr) ==
    IF fr.i < Len(fr.points)
    THEN [fr EXCEPT !.pc = "update_components", !.i = @ + 1]
    ELSE [fr EXCEPT !.pc = "collide", !.i = 1, !.j = 2, !.collision_count = 0]

\* Where the loop goes after point.update of point i: to the next point, or
\* to the first constraint pass.
after_update(fr) ==
    IF fr.i < Len(fr.points)
    THEN [fr EXCEPT !.pc = "update_components", !.i = @ + 1]
    ELSE [fr EXCEPT !.pc = "solve", !.pass = 0, !.k = 1]

\* Where the loop goes at the end of a pass: to the next pass, or after the
\* last one to the collision loop (let mut collision_count = 0).
after_pass(fr) ==
    IF fr.pass + 1 < Passes THEN [fr EXCEPT !.pass = @ + 1, !.k = 1]
    ELSE [fr EXCEPT !.pass = @ + 1, !.k = 1, !.pc = "collide", !.i = 1, !.j = 2,
                    !.collision_count = 0]

\* The collision loop on the detected pair (i, j), which it leaves as `pair`;
\* the loop goes on from the pair after it.
at_pair(fr, i, j, pair) ==
    [fr EXCEPT !.points[i] = pair[1], !.points[j] = pair[2],
               !.i = i, !.j = j + 1,
               !.collision_count = @ + 1,
               !.last_collision_print = collision_print(fr),
               !.done = logged(@, "collide"),
               !.last = FrameStep("collide", i, j, <<fr.points[i], fr.points[j]>>)]

\* The collision loop from the pair (fr.i, fr.j) up to and including the
\* first detected pair `at`, or to its end when there is none.
collide_from(fr, at) ==
    IF at = <<0, 0>>
    THEN [fr EXCEPT !.pc = "draw",
                    !.done = logged(@, "collide"),
                    !.last = FrameStep("collided", 0, 0, <<>>)]
    ELSE at_pair(fr, at[1], at[2], check_collision(fr.points[at[1]], fr.points[at[2]]))

\* clear_background(BLACK); frame_count += 1;
FrameBegin ==
    /\ frame.pc = "begin" /\ frame.frame_count < MaxFrames
    /\ frame' = [frame EXCEPT
                   !.frame_count = @ + 1,
                   !.pc = "update_components", !.i = 1,
                   !.done = <<>>,
                   !.last = FrameStep("begin", 0, 0, <<>>)]
    /\ UNCHANGED <<points, op, pre, steps, shape, quads, ui>>

\* point.update_components() for the next point.
FrameUpdateComponents ==
    /\ frame.pc = "update_components"
    /\ frame' = [frame EXCEPT
                   !.points[frame.i] = update_components(@),
                   !.pc = "update",
                   !.done = logged(@, "update_components"),
                   !.last = FrameStep("update_components", frame.i, frame.i,
                                      <<frame.points[frame.i]>>)]
    /\ UNCHANGED <<points, op, pre, steps, shape, quads, ui>>

\* point.update(1.0/60.0) for the same point.
FrameUpdate ==
    /\ frame.pc = "update"
    /\ frame' = [after_update(frame) EXCEPT
                   !.points[frame.i] = update(@, FrameDt),
                   !.done = logged(@, "update"),
                   !.last = FrameStep("update", frame.i, frame.i,
                                      <<frame.points[frame.i]>>)]
    /\ UNCHANGED <<points, op, pre, steps, shape, quads, ui>>

\* constraint.solve(&mut all_points) for the next constraint of the pass.
FrameSolve ==
    /\ frame.pc = "solve" /\ frame.k <= Len(all_constraints)
    /\ frame' = [frame EXCEPT
                   !.points = solve(all_constraints[frame.k], @),
                   !.k = @ + 1,
                   !.done = logged(@, "solve"),
                   !.last = FrameStep("solve", all_constraints[frame.k].point1,
                                      all_constraints[frame.k].point2,
                                      <<frame.points[all_constraints[frame.k].point1],
                                        frame.points[all_constraints[frame.k].point2]>>)]
    /\ UNCHANGED <<points, op, pre, steps, shape, quads, ui>>

\* The end of one of the 8 passes.
FramePassDone ==
    /\ frame.pc = "solve" /\ frame.k > Len(all_constraints)
    /\ frame' = [after_pass(frame) EXCEPT
                   !.done = logged(@, "solve"),
                   !.last = FrameStep("pass", 0, 0, <<>>)]
    /\ UNCHANGED <<points, op, pre, steps, shape, quads, ui>>

\* The collision loop up to and including the next pair it detects, or to
\* its end.
FrameCollide ==
    /\ frame.pc = "collide"
    /\ frame' = collide_from(frame, next_detected(frame.points, frame.i, frame.j))
    /\ UNCHANGED <<points, op, pre, steps, shape, quads, ui>>

\* constraint.draw for all constraints, point.draw for all points: nothing
\* of the collections changes.
FrameDraw ==
    /\ frame.pc = "draw"
    /\ frame' = [frame EXCEPT
                   !.pc = "input",
                   !.done = logged(@, "draw"),
                   !.last = FrameStep("draw", 0, 0, <<>>)]
    /\ UNCHANGED <<points, op, pre, steps, shape, quads, ui>>

\* The mouse is sampled and a Force is added to every point near it; then
\* draw_text and next_frame().await, which ends the iteration.
FrameInput ==
    /\ frame.pc = "input"
    /\ \E mouse \in Mouse :
        frame' = [frame EXCEPT
                    !.points = add_input(@, mouse),
                    !.pc = "begin",
                    !.mouse_down = mouse.down,
                    !.done = logged(@, "input"),
                    !.last = FrameStep("input", 0, 0, <<>>)]
    /\ UNCHANGED <<points, op, pre, steps, shape, quads, ui>>

NextFrame ==
    \/ FrameBegin
    \/ FrameUpdateComponents
    \/ FrameUpdate
    \/ FrameSolve
    \/ FramePassDone
    \/ FrameCollide
    \/ FrameDraw
    \/ FrameInput

SpecFrame == InitFrame /\ [][NextFrame]_vars

\* ------------------------------------------------------- UI manager
\* objects/ui.rs: the UiManager, a Vec of (z, element) pairs, and the part of
\* the elements the manager looks at: the concrete type (as_any().downcast_ref)
\* and the is_open flag of a UiDropdown.  An element carries the name the
\* caller knows it by, which stands for the identity of the Box.

MaxElements == 3

\* The number of times the caller reaches into an element through
\* get_element_mut in one run.
MaxDirect == 1

NoIndex == [some |-> FALSE, index |-> 0]

SomeIndex(i) == [some |-> TRUE, index |-> i]

\* UiDropdown::new: closed, first option selected, nothing hovered.
UiDropdown_new(name, x, y, width, height, options) ==
    [name |-> name, type |-> "UiDropdown", x |-> x, y |-> y, width |-> width,
     height |-> height, options |-> options, option_height |-> height,
     is_open |-> FALSE, selected_index |-> 0, hover_index |-> NoIndex]

\* UiDropdown::set_option_height.
UiDropdown_set_option_height(e, height) == [e EXCEPT !.option_height = height]

\* The height a caller gives to set_option_height: half the height of the
\* button, which is the height UiDropdown::new starts with.
OptionHeights == {10}

\* Assignments a caller makes to the pub fields of a dropdown it reaches
\* through get_element_mut: is_open, selected_index, and options as the
\* number of strings of the Vec assigned.
FieldWrites ==
    { [field |-> "is_open", value |-> 1],
      [field |-> "selected_index", value |-> 2],
      [field |-> "options", value |-> 0] }

\* The dropdown after the assignment.
UiDropdown_write(e, write) ==
    CASE write.field = "is_open" -> [e EXCEPT !.is_open = (write.value = 1)]
      [] write.field = "selected_index" -> [e EXCEPT !.selected_index = write.value]
      [] write.field = "options" -> [e EXCEPT !.options = write.value]

\* UiButton::new: the fields the manager and the pointer tests read.
UiButton_new(name, x, y, w, h) ==
    [name |-> name, type |-> "UiButton", x |-> x, y |-> y, w |-> w, h |-> h]

\* The elements a caller adds: a button, a dropdown at the same place, a
\* second dropdown whose button begins on the lower edge of the option list
\* of the first, and a dropdown made with an empty list of options.
UiElements ==
    { UiButton_new("button", 0, 0, 100, 20),
      UiDropdown_new("first", 0, 0, 100, 20, 2),
      UiDropdown_new("second", 50, 60, 100, 20, 2),
      UiDropdown_new("empty", 200, 0, 100, 20, 0) }

\* mouse_position() and is_mouse_button_pressed(MouseButton::Left) of one frame.
\* A click on the button of "first", a pointer and a click on its first
\* option, a click on the button of "second", which is on the lower edge of
\* the option list of "first" (below its last option), and a click away from
\* everything.
UiMouse ==
    { [x |-> 10, y |-> 10, pressed |-> TRUE],
      [x |-> 10, y |-> 30, pressed |-> FALSE],
      [x |-> 10, y |-> 30, pressed |-> TRUE],
      [x |-> 60, y |-> 60, pressed |-> TRUE],
      [x |-> 500, y |-> 500, pressed |-> TRUE] }

\* is_over_button of UiDropdown::update.
is_over_button(e, mouse) ==
    /\ mouse.x >= e.x /\ mouse.x <= e.x + e.width
    /\ mouse.y >= e.y /\ mouse.y <= e.y + e.height

\* is_over_dropdown of UiDropdown::update: the button and the option list.
is_over_dropdown(e, mouse, total_height) ==
    /\ mouse.x >= e.x /\ mouse.x <= e.x + e.width
    /\ mouse.y >= e.y /\ mouse.y <= e.y + e.height + total_height

\* UiDropdown::update over an option row: the row is hovered and a press
\* selects it and closes the list.
UiDropdown_update_option(e, mouse, option_index) ==
    IF option_index < e.options
    THEN IF mouse.pressed
         THEN [e EXCEPT !.hover_index = SomeIndex(option_index),
                        !.selected_index = option_index, !.is_open = FALSE]
         ELSE [e EXCEPT !.hover_index = SomeIndex(option_index)]
    ELSE e

\* UiDropdown::update of an open dropdown whose button was not clicked.
UiDropdown_update_open(e, mouse) ==
    IF is_over_dropdown(e, mouse, e.option_height * e.options)
    THEN IF mouse.y > e.y + e.height
         THEN UiDropdown_update_option(e, mouse,
                  (mouse.y - (e.y + e.height)) \div e.option_height)
         ELSE e
    ELSE IF mouse.pressed THEN [e EXCEPT !.is_open = FALSE] ELSE e

\* UiDropdown::update with manager = None: a click on the button toggles the
\* list and returns; otherwise an open list handles its options.
UiDropdown_update(e, mouse) ==
    IF is_over_button(e, mouse) /\ mouse.pressed
    THEN [e EXCEPT !.is_open = ~e.is_open]
    ELSE IF e.is_open THEN UiDropdown_update_open(e, mouse) ELSE e

\* element.update(&theme, None) through the trait object.
UiElement_update(e, mouse) ==
    IF e.type = "UiDropdown" THEN UiDropdown_update(e, mouse) ELSE e

\* element.as_any().downcast_ref::<UiDropdown>() succeeds and is_open is set.
is_open_dropdown(e) == e.type = "UiDropdown" /\ e.is_open

\* UiManager::new.
UiManager_new == [elements |-> <<>>, next_z |-> 0]

\* UiManager::add_element with the counter left alone.
UiManager_add_element_same_z(m, element) ==
    [elements |-> Append(m.elements, <<m.next_z, element>>),
     next_z |-> m.next_z]

\* UiManager::add_element; the z returned is the next_z of m.
UiManager_add_element(m, element) ==
    [elements |-> Append(m.elements, <<m.next_z, element>>),
     next_z |-> m.next_z + 1]

\* self.elements.iter().position(|(ez, _)| *ez == z); 0 stands for None.
RECURSIVE position(_, _, _)
position(elements, z, i) ==
    IF i > Len(elements) THEN 0
    ELSE IF elements[i][1] = z THEN i
    ELSE position(elements, z, i + 1)

\* Vec::remove(pos).
Vec_remove(v, pos) ==
    [i \in 1..(Len(v) - 1) |-> IF i < pos THEN v[i] ELSE v[i + 1]]

\* UiManager::bring_to_front: the pair leaves its place and is pushed at the
\* end with the z it had.
UiManager_bring_to_front(m, z) ==
    IF position(m.elements, z, 1) # 0
    THEN [m EXCEPT !.elements =
             Append(Vec_remove(m.elements, position(m.elements, z, 1)),
                    m.elements[position(m.elements, z, 1)])]
    ELSE m

\* UiManager::get_element: the first pair with that z; NoIndex-like None.
UiManager_get_element(m, z) ==
    IF position(m.elements, z, 1) # 0
    THEN [some |-> TRUE, element |-> m.elements[position(m.elements, z, 1)][2]]
    ELSE [some |-> FALSE]

\* UiManager::get_element_mut: the place of the first pair with that z, which
\* the caller may change through the reference; 0 stands for None.
UiManager_get_element_mut(m, z) == position(m.elements, z, 1)

\* The manager after the caller has put `element` in the place of the one
\* get_element_mut(z) gave it.
with_element(m, z, element) ==
    [m EXCEPT !.elements[UiManager_get_element_mut(m, z)][2] = element]

\* First loop of UiManager::update: every element updated in Vec order.
update_elements(elements, mouse) ==
    [i \in 1..Len(elements) |->
        <<elements[i][1], UiElement_update(elements[i][2], mouse)>>]

\* Second loop of UiManager::update: the z of the open dropdowns in Vec order.
RECURSIVE open_dropdowns(_, _)
open_dropdowns(elements, i) ==
    IF i > Len(elements) THEN <<>>
    ELSE IF is_open_dropdown(elements[i][2])
         THEN <<elements[i][1]>> \o open_dropdowns(elements, i + 1)
         ELSE open_dropdowns(elements, i + 1)

\* Third loop of UiManager::update: bring_to_front for each collected z.
RECURSIVE bring_all_to_front(_, _, _)
bring_all_to_front(m, zs, i) ==
    IF i > Len(zs) THEN m
    ELSE bring_all_to_front(UiManager_bring_to_front(m, zs[i]), zs, i + 1)

\* UiManager::update.
UiManager_update_elements(m, elements) ==
    bring_all_to_front([m EXCEPT !.elements = elements],
                       open_dropdowns(elements, 1), 1)

UiManager_update(m, mouse) ==
    UiManager_update_elements(m, update_elements(m.elements, mouse))

\* The split of UiManager::draw, in Vec order.
draw_open_dropdowns(elements) ==
    SelectSeq(elements, LAMBDA pair : is_open_dropdown(pair[2]))

draw_others(elements) ==
    SelectSeq(elements, LAMBDA pair : ~is_open_dropdown(pair[2]))

\* Insertion of a pair into a list sorted by z, after the pairs with the same
\* z: sort_by_key is stable.
RECURSIVE sort_insert(_, _, _)
sort_insert(sorted, pair, i) ==
    IF i > Len(sorted) THEN Append(sorted, pair)
    ELSE IF sorted[i][1] > pair[1]
         THEN SubSeq(sorted, 1, i - 1) \o <<pair>> \o SubSeq(sorted, i, Len(sorted))
         ELSE sort_insert(sorted, pair, i + 1)

\* sort_by_key(|(z, _)| **z).
RECURSIVE sort_by_key(_, _, _)
sort_by_key(v, i, sorted) ==
    IF i > Len(v) THEN sorted
    ELSE sort_by_key(v, i + 1, sort_insert(sorted, v[i], 1))

\* UiDropdown::draw indexes self.options[self.selected_index] for its button
\* text and panics when there is no such option; UiButton::draw returns.
draw_panics(e) == e.type = "UiDropdown" /\ e.selected_index >= e.options

\* The calls of a list that are made when element.draw panics at the first
\* element for which draw_panics: the calls up to and including that one.
RECURSIVE drawn_from(_, _)
drawn_from(calls, i) ==
    IF i > Len(calls) THEN calls
    ELSE IF draw_panics(calls[i][2]) THEN SubSeq(calls, 1, i)
    ELSE drawn_from(calls, i + 1)

\* UiManager::draw without the two sorts: the lists drawn in Vec order.
UiManager_draw_unsorted(m) ==
    drawn_from(draw_others(m.elements) \o draw_open_dropdowns(m.elements), 1)

\* UiManager::draw: the (z, element) pairs in the order element.draw is
\* called on them, the last call being the one that panics if one does.
UiManager_draw(m) ==
    drawn_from(sort_by_key(draw_others(m.elements), 1, <<>>)
                   \o sort_by_key(draw_open_dropdowns(m.elements), 1, <<>>), 1)

\* UiManager::draw panics: it calls draw on every element unless an earlier
\* call has panicked.
UiManager_draw_panics(m) ==
    \E i \in 1..Len(m.elements) : draw_panics(m.elements[i][2])

\* The manager with the record of the calls made on it: op and arg the last
\* call, before the elements at that call, added the (z, name) pairs of the
\* add_element calls in call order, drawn the pairs of a draw just made and
\* after the call which that draw followed (empty and "none" after any other
\* call), panicked whether the draw panicked, which ends the program, and
\* direct the number of get_element_mut calls.
InitUi ==
    /\ ui = [manager |-> UiManager_new, op |-> "new", arg |-> 0,
             before |-> <<>>, added |-> <<>>, drawn |-> <<>>,
             after |-> "none", panicked |-> FALSE, direct |-> 0]
    /\ points = <<>> /\ op = NoOp /\ pre = <<>> /\ steps = 0
    /\ shape = Idle /\ frame = Idle /\ quads = Idle

UiNames(m) == { m.elements[i][2].name : i \in 1..Len(m.elements) }

UiAddElement(element) ==
    /\ ~ui.panicked
    /\ Len(ui.manager.elements) < MaxElements
    /\ element.name \notin UiNames(ui.manager)
    /\ ui' = [ui EXCEPT !.manager = UiManager_add_element(ui.manager, element),
                        !.op = "add_element", !.arg = ui.manager.next_z,
                        !.before = ui.manager.elements,
                        !.drawn = <<>>, !.after = "none",
                        !.added = Append(ui.added, <<ui.manager.next_z, element.name>>)]
    /\ UNCHANGED <<points, op, pre, steps, shape, frame, quads>>

UiBringToFront(z) ==
    /\ ~ui.panicked
    /\ ui' = [ui EXCEPT !.manager = UiManager_bring_to_front(ui.manager, z),
                        !.op = "bring_to_front", !.arg = z,
                        !.before = ui.manager.elements,
                        !.drawn = <<>>, !.after = "none"]
    /\ UNCHANGED <<points, op, pre, steps, shape, frame, quads>>

UiUpdate(mouse) ==
    /\ ~ui.panicked
    /\ ui' = [ui EXCEPT !.manager = UiManager_update(ui.manager, mouse),
                        !.op = "update", !.arg = 0,
                        !.before = ui.manager.elements,
                        !.drawn = <<>>, !.after = "none"]
    /\ UNCHANGED <<points, op, pre, steps, shape, frame, quads>>

\* draw after draw would only repeat the record.
UiDraw ==
    /\ ~ui.panicked
    /\ ui.op # "draw"
    /\ ui' = [ui EXCEPT !.op = "draw", !.after = ui.op,
                        !.drawn = UiManager_draw(ui.manager),
                        !.panicked = UiManager_draw_panics(ui.manager)]
    /\ UNCHANGED <<points, op, pre, steps, shape, frame, quads>>

\* The element get_element_mut(z) gives is a dropdown (downcast_mut succeeds).
IsDropdownAt(m, z) ==
    /\ UiManager_get_element_mut(m, z) # 0
    /\ m.elements[UiManager_get_element_mut(m, z)][2].type = "UiDropdown"

\* get_element_mut(z), downcast_mut::<UiDropdown>(), set_option_height(height).
UiSetOptionHeight(z, height) ==
    /\ ~ui.panicked /\ ui.direct < MaxDirect
    /\ IsDropdownAt(ui.manager, z)
    /\ ui' = [ui EXCEPT
                !.manager = with_element(ui.manager, z,
                    UiDropdown_set_option_height(
                        ui.manager.elements[UiManager_get_element_mut(ui.manager, z)][2],
                        height)),
                !.op = "set_option_height", !.arg = 0,
                !.before = <<>>,
                !.drawn = <<>>, !.after = "none",
                !.direct = @ + 1]
    /\ UNCHANGED <<points, op, pre, steps, shape, frame, quads>>

\* get_element_mut(z) and update(&theme, None) on that element alone: the
\* pass of UiManager::update that brings open dropdowns to front is not run.
UiElementUpdate(z, mouse) ==
    /\ ~ui.panicked /\ ui.direct < MaxDirect
    /\ IsDropdownAt(ui.manager, z)
    /\ ui' = [ui EXCEPT
                !.manager = with_element(ui.manager, z,
                    UiElement_update(
                        ui.manager.elements[UiManager_get_element_mut(ui.manager, z)][2],
                        mouse)),
                !.op = "element_update", !.arg = 0,
                !.before = <<>>,
                !.drawn = <<>>, !.after = "none",
                !.direct = @ + 1]
    /\ UNCHANGED <<points, op, pre, steps, shape, frame, quads>>

\* get_element_mut(z), downcast_mut::<UiDropdown>(), and an assignment to a
\* pub field of the dropdown.
UiWriteField(z, write) ==
    /\ ~ui.panicked /\ ui.direct < MaxDirect
    /\ IsDropdownAt(ui.manager, z)
    /\ ui' = [ui EXCEPT
                !.manager = with_element(ui.manager, z,
                    UiDropdown_write(
                        ui.manager.elements[UiManager_get_element_mut(ui.manager, z)][2],
                        write)),
                !.op = "write_field", !.arg = 0,
                !.before = <<>>,
                !.drawn = <<>>, !.after = "none",
                !.direct = @ + 1]
    /\ UNCHANGED <<points, op, pre, steps, shape, frame, quads>>

NextUi ==
    \/ \E element \in UiElements : UiAddElement(element)
    \/ \E z \in 0..MaxElements : UiBringToFront(z)
    \/ \E mouse \in UiMouse : UiUpdate(mouse)
    \/ UiDraw
    \/ \E z \in 0..MaxElements, height \in OptionHeights : UiSetOptionHeight(z, height)
    \/ \E z \in 0..MaxElements, mouse \in UiMouse : UiElementUpdate(z, mouse)
    \/ \E z \in 0..MaxElements, write \in FieldWrites : UiWriteField(z, write)

SpecUi == InitUi /\ [][NextUi]_vars

\* ------------------------------------------------------- measurements

Positive(x) == FGt(x, Zero)

VSub(a, b) == <<FSub(a[1], b[1]), FSub(a[2], b[2])>>

Dot(a, b) == FAdd(FMul(a[1], b[1]), FMul(a[2], b[2]))

Cross(a, b) == FSub(FMul(a[1], b[2]), FMul(a[2], b[1]))

FAbs(x) == IF FLt(x, Zero) THEN FNeg(x) ELSE x

\* The vectors a and b are equal as numbers (-0.0 is 0.0, NaN is not NaN).
VEq(a, b) == FEq(a[1], b[1]) /\ FEq(a[2], b[2])

\* a and b are the same value or equal as numbers: what has not changed, or
\* has changed from 0.0 to -0.0 only.
FSame(a, b) == a = b \/ FEq(a, b)

VSame(a, b) == FSame(a[1], b[1]) /\ FSame(a[2], b[2])

\* a is b to within the rounding of f32 arithmetic on operands of the size
\* `scale`: one part in a million of it.
Near(a, b, scale) ==
    FEq(a, b) \/ FLe(FMul(FAbs(FSub(a, b)), I(1000000)), scale)

\* The distance between the centres of a and b, as the code computes it.
Distance(a, b) == Delta(a, b).distance

\* overlap of resolve_collision: (self.radius + other.radius) - distance.
Overlap(a, b) == FSub(FAdd(a.radius, b.radius), Distance(a, b))

\* The centres of a and b are apart and closer than the sum of the radii.
Overlapping(a, b) == Positive(Distance(a, b)) /\ Positive(Overlap(a, b))

\* The centres of a and b are at the same, well defined, place.
Coincident(a, b) == FEq(Distance(a, b), Zero)

\* |distance - rest_length| of constraint c on the points pts.
ConstraintError(c, pts) ==
    FAbs(FSub(Distance(pts[c.point1], pts[c.point2]), c.rest_length))

\* mass * velocity of the two points of pts, summed, on axis k.
Momentum(pts, k) ==
    FAdd(FMul(pts[1].mass, pts[1].velocity[k]), FMul(pts[2].mass, pts[2].velocity[k]))

\* The relative velocity of a and b brings their centres closer / takes them
\* apart: (v_a - v_b) . (p_b - p_a) is positive / negative.
Approaching(a, b) ==
    FGt(Dot(VSub(a.velocity, b.velocity), VSub(b.position, a.position)), Zero)

Separating(a, b) ==
    FLt(Dot(VSub(a.velocity, b.velocity), VSub(b.position, a.position)), Zero)

\* Two free points of equal positive mass, overlapping, with equal and
\* opposite velocities along the line of centres, closing in.
HeadOn(a, b) ==
    /\ ~a.fixed /\ ~b.fixed
    /\ Positive(a.mass) /\ FEq(a.mass, b.mass)
    /\ Overlapping(a, b)
    /\ VEq(a.velocity, Vec2_scale(b.velocity, FNeg(One)))
    /\ FEq(Cross(a.velocity, VSub(b.position, a.position)), Zero)
    /\ Approaching(a, b)

\* The last operation was `name`; Self and Other are its points before and
\* after it (for solve, point1 and point2 of the constraint).
Did(name) == op.name = name

SelfPre == pre[op.i]

OtherPre == pre[op.j]

SelfPost == points[op.i]

OtherPost == points[op.j]

\* The last operation was one of the two-point operations.
DidPairOp == op.name \in {"solve", "resolve_collision", "on_collide"}

\* ------------------------------------------------------- properties

\* C1: a Point with fixed = true keeps its position and velocity (and stays
\* fixed) across every operation: update, update_components (Gravity,
\* Friction, Force), solve, resolve_collision and on_collide, whatever force
\* was accumulated on it.
FixedPointInvariance ==
    \A k \in Idx :
        pre[k].fixed =>
            /\ points[k].fixed
            /\ points[k].position = pre[k].position
            /\ points[k].velocity = pre[k].velocity

\* C1, reached: on_collide ran on a fixed point and a free one, and moved the
\* free one.
FixedPointInCollision ==
    /\ Did("on_collide")
    /\ SelfPre.fixed /\ ~OtherPre.fixed
    /\ ~VSame(OtherPost.position, OtherPre.position)
    /\ ~VSame(OtherPost.velocity, OtherPre.velocity)

\* C2, as the specification states it: for a head-on pair, resolve_collision
\* turns each velocity into -0.8 times itself, to within rounding, and does
\* not enlarge the overlap.
HeadOnVelocitiesReverse ==
    (Did("resolve_collision") /\ HeadOn(SelfPre, OtherPre)) =>
        /\ \A k \in {1, 2} :
              /\ Near(SelfPost.velocity[k], FMul(SelfPre.velocity[k], FNeg(restitution)),
                      FAbs(SelfPre.velocity[k]))
              /\ Near(OtherPost.velocity[k], FMul(OtherPre.velocity[k], FNeg(restitution)),
                      FAbs(OtherPre.velocity[k]))
        /\ FLe(Overlap(SelfPost, OtherPost), Overlap(SelfPre, OtherPre))

\* C2, what the code does: resolve_collision on a head-on pair returns at its
\* "moving apart" test and leaves both points as they were.
HeadOnPairUntouched ==
    /\ Did("resolve_collision") /\ HeadOn(SelfPre, OtherPre)
    /\ SelfPost = SelfPre /\ OtherPost = OtherPre

\* C3, as the specification states it: resolve_collision leaves both
\* velocities unchanged when the overlapping points (of positive mass, so that
\* every quantity is finite) are already separating.
SeparatingVelocitiesKept ==
    (Did("resolve_collision") /\ Overlapping(SelfPre, OtherPre)
        /\ Positive(SelfPre.mass) /\ Positive(OtherPre.mass)
        /\ Separating(SelfPre, OtherPre)) =>
        /\ VSame(SelfPost.velocity, SelfPre.velocity)
        /\ VSame(OtherPost.velocity, OtherPre.velocity)

\* C3, what the code does: a separating pair of free points of positive mass
\* receives the impulse, and is separating faster after the call.
SeparatingPairPushed ==
    /\ Did("resolve_collision")
    /\ ~SelfPre.fixed /\ ~OtherPre.fixed
    /\ Positive(SelfPre.mass) /\ Positive(OtherPre.mass)
    /\ Overlapping(SelfPre, OtherPre) /\ Separating(SelfPre, OtherPre)
    /\ ~VSame(SelfPost.velocity, SelfPre.velocity)
    /\ ~VSame(OtherPost.velocity, OtherPre.velocity)

\* |mass * velocity| of the two points of pts, summed, on axis k.
MomentumScale(pts, k) ==
    FAdd(FAbs(FMul(pts[1].mass, pts[1].velocity[k])),
         FAbs(FMul(pts[2].mass, pts[2].velocity[k])))

\* The momentum b is the momentum a to within the rounding of the
\* arithmetic: one part in a million of the momenta that were summed.
SameMomentum(a, b, scale) == Near(a, b, scale)

\* C4: resolve_collision on two free points of positive mass conserves
\* mass1 * velocity1 + mass2 * velocity2 on both axes, to within rounding.
MomentumConserved ==
    (Did("resolve_collision") /\ ~SelfPre.fixed /\ ~OtherPre.fixed
        /\ Positive(SelfPre.mass) /\ Positive(OtherPre.mass)) =>
        \A k \in {1, 2} :
            SameMomentum(Momentum(points, k), Momentum(pre, k),
                         FAdd(MomentumScale(points, k), MomentumScale(pre, k)))

\* C4, reached: resolve_collision changed the velocities of two free points
\* of different positive masses.
MomentumExchanged ==
    /\ Did("resolve_collision") /\ ~SelfPre.fixed /\ ~OtherPre.fixed
    /\ Positive(SelfPre.mass) /\ Positive(OtherPre.mass)
    /\ SelfPre.mass # OtherPre.mass
    /\ ~VSame(SelfPost.velocity, SelfPre.velocity)
    /\ ~VSame(OtherPost.velocity, OtherPre.velocity)

\* C5: resolve_collision on two overlapping points never leaves the overlap
\* r1 + r2 - distance larger than it was before the call.
OverlapNeverGrows ==
    (Did("resolve_collision") /\ Overlapping(SelfPre, OtherPre)) =>
        FLe(Overlap(SelfPost, OtherPost), Overlap(SelfPre, OtherPre))

\* C5, reached: resolve_collision made the overlap of two overlapping points
\* strictly smaller.
OverlapReduced ==
    /\ Did("resolve_collision") /\ Overlapping(SelfPre, OtherPre)
    /\ FLt(Overlap(SelfPost, OtherPost), Overlap(SelfPre, OtherPre))

\* The size of the numbers |distance - rest_length| of constraint c on the
\* points pts is computed from: the coordinates of both points and the rest
\* length.
ConstraintScale(c, pts) ==
    FAdd(FAdd(FAdd(FAbs(pts[c.point1].position[1]), FAbs(pts[c.point1].position[2])),
              FAdd(FAbs(pts[c.point2].position[1]), FAbs(pts[c.point2].position[2]))),
         c.rest_length)

\* |distance - rest_length| of constraint c on pts is zero to within the
\* rounding of the positions.
AtRest(c, pts) == Near(ConstraintError(c, pts), Zero, ConstraintScale(c, pts))

\* C6: for stiffness in (0, 1] and two non-coincident points of positive
\* mass, solve never makes |distance - rest_length| larger, and makes it
\* strictly smaller when it was not zero and a point is free; an error that
\* is zero to within the rounding of the positions counts as zero.
ConstraintErrorShrinks ==
    (Did("solve") /\ Positive(op.c.stiffness) /\ FLe(op.c.stiffness, One)
        /\ Positive(SelfPre.mass) /\ Positive(OtherPre.mass)
        /\ Positive(Distance(SelfPre, OtherPre))) =>
        /\ \/ FLe(ConstraintError(op.c, points), ConstraintError(op.c, pre))
           \/ AtRest(op.c, points)
        /\ (/\ ~AtRest(op.c, pre)
            /\ ~(SelfPre.fixed /\ OtherPre.fixed)) =>
                FLt(ConstraintError(op.c, points), ConstraintError(op.c, pre))

\* C6, reached: solve with stiffness below 1 on a fixed and a free point of
\* positive masses left an error that is smaller than before and not zero.
ConstraintErrorReduced ==
    /\ Did("solve") /\ FLt(op.c.stiffness, One)
    /\ Positive(SelfPre.mass) /\ Positive(OtherPre.mass)
    /\ SelfPre.fixed # OtherPre.fixed
    /\ FLt(ConstraintError(op.c, points), ConstraintError(op.c, pre))
    /\ Positive(ConstraintError(op.c, points))

\* The displacement of a point from a to b on axis k, and the size of the
\* coordinates it is the difference of.
Displacement(a, b, k) == FSub(b.position[k], a.position[k])

PositionScale(a, b, k) == FAdd(FAbs(a.position[k]), FAbs(b.position[k]))

\* C7: solve on two free points of positive masses m1, m2 displaces them so
\* that m1 * displacement1 = -(m2 * displacement2) (opposite directions,
\* magnitudes in the ratio m2 : m1) and displacement1 - displacement2 is the
\* full correction delta * diff * stiffness, both to within the rounding of
\* the positions.
MassWeightedCorrection ==
    (Did("solve") /\ ~SelfPre.fixed /\ ~OtherPre.fixed
        /\ Positive(SelfPre.mass) /\ Positive(OtherPre.mass)
        /\ Positive(Distance(SelfPre, OtherPre))) =>
        \A k \in {1, 2} :
            /\ Near(FMul(Displacement(SelfPre, SelfPost, k), SelfPre.mass),
                    FNeg(FMul(Displacement(OtherPre, OtherPost, k), OtherPre.mass)),
                    FAdd(FMul(PositionScale(SelfPre, SelfPost, k), SelfPre.mass),
                         FMul(PositionScale(OtherPre, OtherPost, k), OtherPre.mass)))
            /\ Near(FSub(Displacement(SelfPre, SelfPost, k),
                         Displacement(OtherPre, OtherPost, k)),
                    FMul(FSub(OtherPre.position[k], SelfPre.position[k]),
                         FMul(FDiv(FSub(Distance(SelfPre, OtherPre), op.c.rest_length),
                                   Distance(SelfPre, OtherPre)),
                              op.c.stiffness)),
                    FAdd(PositionScale(SelfPre, SelfPost, k),
                         PositionScale(OtherPre, OtherPost, k)))

\* C7, reached: solve moved two free points of different positive masses.
UnequalMassesCorrected ==
    /\ Did("solve") /\ ~SelfPre.fixed /\ ~OtherPre.fixed
    /\ Positive(SelfPre.mass) /\ Positive(OtherPre.mass)
    /\ FLt(SelfPre.mass, OtherPre.mass)
    /\ ~VSame(SelfPost.position, SelfPre.position)
    /\ ~VSame(OtherPost.position, OtherPre.position)

\* C8, as the specification states it: when both masses are 0, solve leaves
\* both positions as they were, and well defined.
ZeroMassSolveIsNoOp ==
    (Did("solve") /\ FEq(SelfPre.mass, Zero) /\ FEq(OtherPre.mass, Zero)) =>
        /\ VSame(SelfPost.position, SelfPre.position)
        /\ VSame(OtherPost.position, OtherPre.position)
        /\ \A k \in {1, 2} : ~IsNaN(SelfPost.position[k]) /\ ~IsNaN(OtherPost.position[k])

\* C8, what the code does: solve on two free points of mass 0 whose positions
\* were well defined writes NaN into the positions of both.
ZeroMassSolveWritesNaN ==
    /\ Did("solve") /\ FEq(SelfPre.mass, Zero) /\ FEq(OtherPre.mass, Zero)
    /\ \A k \in {1, 2} : IsFinite(SelfPre.position[k]) /\ IsFinite(OtherPre.position[k])
    /\ \A k \in {1, 2} : IsNaN(SelfPost.position[k]) /\ IsNaN(OtherPost.position[k])

\* C9: when the two points are at the same position, solve, resolve_collision
\* and on_collide leave the positions and velocities of both unchanged, so no
\* NaN is written into them.
CoincidentPairSkipped ==
    (DidPairOp /\ Coincident(SelfPre, OtherPre)) =>
        /\ SelfPost.position = SelfPre.position
        /\ SelfPost.velocity = SelfPre.velocity
        /\ OtherPost.position = OtherPre.position
        /\ OtherPost.velocity = OtherPre.velocity

\* C9, reached: on_collide ran on two free coincident points with different
\* velocities.
CoincidentOnCollide ==
    /\ Did("on_collide") /\ Coincident(SelfPre, OtherPre)
    /\ ~SelfPre.fixed /\ ~OtherPre.fixed
    /\ ~VSame(SelfPre.velocity, OtherPre.velocity)

\* C10: update(dt) on a free point of positive mass sets velocity to
\* velocity + (force / mass) * dt, position to position + (new velocity) * dt
\* and force to (0, 0); on a fixed point it changes nothing.
UpdateIntegrates ==
    Did("update") =>
        /\ SelfPre.fixed => SelfPost = SelfPre
        /\ (~SelfPre.fixed /\ Positive(SelfPre.mass)) =>
            /\ \A k \in {1, 2} :
                /\ SelfPost.velocity[k] =
                     FAdd(SelfPre.velocity[k],
                          FMul(FDiv(SelfPre.force[k], SelfPre.mass), op.a))
                /\ SelfPost.position[k] =
                     FAdd(SelfPre.position[k], FMul(SelfPost.velocity[k], op.a))
            /\ SelfPost.force = <<Zero, Zero>>

\* C10, reached: update ran on a free point of positive mass that had an
\* accumulated force, and changed its velocity and its position.
UpdateWithForce ==
    /\ Did("update") /\ ~SelfPre.fixed /\ Positive(SelfPre.mass)
    /\ ~VSame(SelfPre.force, <<Zero, Zero>>)
    /\ ~VSame(SelfPost.velocity, SelfPre.velocity)
    /\ ~VSame(SelfPost.position, SelfPre.position)

\* C11, as the specification states it: a point whose mass is not positive is
\* treated as fixed (or does not exist), so update and resolve_collision leave
\* its position and velocity as they were.
ZeroMassPointInert ==
    \A k \in Idx :
        (op.name \in {"update", "resolve_collision"} /\ ~Positive(pre[k].mass)) =>
            /\ VSame(points[k].position, pre[k].position)
            /\ VSame(points[k].velocity, pre[k].velocity)

\* C11, what the code does: Point::new built a free point of mass 0, and
\* update, dividing the force by that mass, wrote NaN into its velocity and
\* its position.
ZeroMassUpdateWritesNaN ==
    /\ Did("update") /\ ~SelfPre.fixed /\ FEq(SelfPre.mass, Zero)
    /\ ~Point_new(SelfPre.position[1], SelfPre.position[2], SelfPre.mass,
                  SelfPre.radius).fixed
    /\ \A k \in {1, 2} : IsFinite(SelfPre.velocity[k]) /\ IsFinite(SelfPre.position[k])
    /\ \A k \in {1, 2} : IsNaN(SelfPost.velocity[k]) /\ IsNaN(SelfPost.position[k])

\* C17, as the documentation of Force::new states it: once a point's
\* components have been updated, each Force among them has been spent, and a
\* further update of that component leaves the velocity as it is.
ForceAppliedOnce ==
    Did("update_components") =>
        \A k \in 1..Len(SelfPost.components) :
            SelfPost.components[k].type = "Force" =>
                VSame(Force_update(SelfPost.components[k], SelfPost).velocity,
                      SelfPost.velocity)

\* C17, what the code does: after update_components of a free point, its
\* Force component still holds the vector it was built with, and one more
\* update adds that vector again.
ForceAppliedAgain ==
    /\ Did("update_components") /\ ~SelfPre.fixed
    /\ \E k \in 1..Len(SelfPost.components) :
        /\ SelfPost.components[k] = Force_new(I(3), I(4))
        /\ Force_update(SelfPost.components[k], SelfPost).velocity
             = <<FAdd(SelfPost.velocity[1], I(3)), FAdd(SelfPost.velocity[2], I(4))>>

\* A square of free points built by create_square with stiffness 0.95, after
\* the 8 relaxation passes.
RelaxedSquare ==
    /\ shape.kind = "create_square" /\ shape.pass = Passes
    /\ ~shape.config.fixed /\ shape.config.constraint_stiffness = F(19, 20)

\* C12, as the specification states it: after 8 relaxation passes over the
\* constraints of create_square (stiffness 0.95, free points), each of the 4
\* edges is within 1% of the rest length of its constraint.
SquareEdgesAtRest ==
    RelaxedSquare =>
        \A i \in 1..4 :
            FLe(ConstraintError(shape.constraints[i], shape.points),
                FMul(shape.constraints[i].rest_length, F(1, 100)))

\* C12, what the code does: the two braces of create_square have the rest
\* length of an edge, not of a diagonal, and after 8 passes every edge is
\* shorter than 80% of its rest length.
SquareEdgesShort ==
    /\ RelaxedSquare
    /\ \A i \in 1..4 :
        FLt(Distance(shape.points[shape.constraints[i].point1],
                     shape.points[shape.constraints[i].point2]),
            FMul(shape.constraints[i].rest_length, F(4, 5)))

\* The components a factory adds to a point for the configuration config.
ConfiguredComponents(config) ==
    <<Gravity_new(config.gravity), Friction_new(config.friction),
      Collision_new(config.bounce, config.slope_friction)>>

\* A shape has been built by one of the four factories.
IsShape ==
    shape.kind \in {"create_triangle", "create_square", "create_circle", "create_line"}

\* C13, as the specification states it: every point a factory returns carries
\* exactly the Gravity, Friction and Collision components of the configuration,
\* also when the configuration is fixed.
ShapeComponentsAttached ==
    IsShape =>
        \A i \in 1..Len(shape.points) :
            shape.points[i].components = ConfiguredComponents(shape.config)

\* C13, amended: the points of create_triangle, create_square and
\* create_circle, and those of create_line for a configuration that is not
\* fixed, carry exactly the Gravity, Friction and Collision components of the
\* configuration; the points of a fixed create_line carry no component.
ShapeComponentsUnlessFixedLine ==
    IsShape =>
        \A i \in 1..Len(shape.points) :
            shape.points[i].components =
                IF shape.kind = "create_line" /\ shape.config.fixed THEN <<>>
                ELSE ConfiguredComponents(shape.config)

\* C13, reached: create_line built a fixed line of several points, none of
\* which has a component.
FixedLineWithoutComponents ==
    /\ shape.kind = "create_line" /\ shape.config.fixed
    /\ Len(shape.points) > 1
    /\ \A i \in 1..Len(shape.points) :
        shape.points[i].fixed /\ shape.points[i].components = <<>>

\* C14, as the specification states it: for num_points of at least 1, every
\* constraint a factory returns joins two different points of the returned
\* collection, so no solve on it panics.
ShapeConstraintsValid ==
    IsShape /\ shape.num_points >= 1 =>
        /\ ~shape.panicked
        /\ \A k \in 1..Len(shape.constraints) :
            /\ shape.constraints[k].point1 # shape.constraints[k].point2
            /\ shape.constraints[k].point1 \in 1..Len(shape.points)
            /\ shape.constraints[k].point2 \in 1..Len(shape.points)

\* C14, what the code does: create_circle with num_points = 1 returns
\* constraints from the only point to itself, and the first solve panics.
CircleOfOnePanics ==
    /\ shape.kind = "create_circle" /\ shape.num_points = 1
    /\ Len(shape.points) = 1 /\ Len(shape.constraints) = 2
    /\ \A k \in 1..2 :
        shape.constraints[k].point1 = 1 /\ shape.constraints[k].point2 = 1
    /\ shape.panicked

\* The Quad an operation of SpecQuads was applied to, before and after.
QuadPre == pre[op.i]

QuadPost == quads[op.i]

\* C18, as the documentation states it: remove_component::<T>() removes
\* exactly the components of type T and keeps the others in their order, so
\* that update_components runs no component of type T afterwards.
RemoveComponentByType ==
    (Did("remove_component") /\ op.T # BoxDynComponent) =>
        /\ QuadPost.components =
             SelectSeq(QuadPre.components, LAMBDA comp : comp.type # op.T)
        /\ \A k \in 1..Len(QuadPost.components) : QuadPost.components[k].type # op.T

\* C18, what the code does: remove_component::<Gravity>() on a Quad that has
\* a Gravity component leaves the Quad as it was, and the next
\* update_components runs the Gravity component again.
RemoveComponentKeepsAll ==
    /\ Did("remove_component") /\ op.T = "Gravity"
    /\ \E k \in 1..Len(QuadPre.components) : QuadPre.components[k].type = "Gravity"
    /\ QuadPost = QuadPre
    /\ Quad_update_components(QuadPost).velocity_y # QuadPost.velocity_y

\* The length of the overlap of the intervals [x1, x1 + w1] and [x2, x2 + w2]
\* (negative when they are apart).
IntervalOverlap(x1, w1, x2, w2) ==
    FSub(IF FLt(FAdd(x1, w1), FAdd(x2, w2)) THEN FAdd(x1, w1) ELSE FAdd(x2, w2),
         IF FGt(x1, x2) THEN x1 ELSE x2)

\* The two rectangles overlap over a positive length on both axes.
BoxesOverlap(a, b) ==
    /\ Positive(IntervalOverlap(a.position[1], a.size[1], b.position[1], b.size[1]))
    /\ Positive(IntervalOverlap(a.position[2], a.size[2], b.position[2], b.size[2]))

\* The Quad is a rectangle: its width and height are positive.
IsRectangle(q) == Positive(q.size[1]) /\ Positive(q.size[2])

\* C20: for two rectangles (positive width and height, position the top-left
\* corner), is_colliding_with is true exactly when they overlap over a
\* positive length on both axes, so not when they only touch along an edge,
\* and it gives the same answer with its arguments exchanged.
QuadOverlapTest ==
    (Did("is_colliding_with")
        /\ IsRectangle(quads[op.i]) /\ IsRectangle(quads[op.j])) =>
        /\ op.result = BoxesOverlap(quads[op.i], quads[op.j])
        /\ op.result = Quad_is_colliding_with(quads[op.j], quads[op.i])

\* C20, reached: is_colliding_with answered false for two rectangles that
\* share an edge and nothing more.
QuadsTouchingNotColliding ==
    /\ Did("is_colliding_with") /\ ~op.result
    /\ IsRectangle(quads[op.i]) /\ IsRectangle(quads[op.j])
    /\ FEq(FAdd(quads[op.i].position[1], quads[op.i].size[1]), quads[op.j].position[1])
    /\ quads[op.i].position[2] = quads[op.j].position[2]
    /\ quads[op.i].size[2] = quads[op.j].size[2]

\* ---------------------------------------------- the simulation loop

\* update_components and update for each of n points in turn.
point_phases(n) ==
    [k \in 1..(2 * n) |-> IF k % 2 = 1 THEN "update_components" ELSE "update"]

\* The phases of one frame as the loop body runs them for n points.
FramePhases(n) == point_phases(n) \o <<"solve", "collide", "draw", "input">>

IsPrefix(s, t) == Len(s) <= Len(t) /\ SubSeq(t, 1, Len(s)) = s

PhaseRank(phase) ==
    CASE phase = "input" -> 1
      [] phase = "update_components" -> 2
      [] phase = "update" -> 3
      [] phase = "solve" -> 4
      [] phase = "collide" -> 5
      [] phase = "draw" -> 6

\* C15 as stated: within a frame the phases run in the order input forces,
\* behaviors of all points, integration of all points, relaxation, collisions,
\* rendering, each phase once and none resumed after a later one has begun.
FramePhasesStrictOrder ==
    \A a \in 1..Len(frame.done) : \A b \in 1..Len(frame.done) :
        a < b => PhaseRank(frame.done[a]) < PhaseRank(frame.done[b])

\* C15: within a frame the loop runs update_components and then update for
\* each point in turn, then exactly 8 passes over all constraints, then the
\* collision loop over all pairs, then the drawing, and the input block last;
\* the collision loop starts with all 8 passes done.
FramePhasesInCodeOrder ==
    /\ IsPrefix(frame.done, FramePhases(Len(frame.points)))
    /\ (frame.pc \in {"collide", "draw", "input"} => frame.pass = Passes)
    /\ (frame.last.name \in {"collide", "collided", "draw", "input"} => frame.pass = Passes)

\* A frame of the scene has run to its end: every point updated in turn, the
\* passes, the collision loop, the drawing and the input.
FrameCompleted ==
    /\ frame.last.name = "input"
    /\ frame.done = FramePhases(Len(all_points))
    /\ frame.pass = Passes
    /\ frame.collision_count > 0

ForceCount(p) == Cardinality({ c \in 1..Len(p.components) : p.components[c].type = "Force" })

HasComponent(p, type) == \E c \in 1..Len(p.components) : p.components[c].type = type

NotForce(comp) == comp.type # "Force"

\* The point without the Force components it holds.
without_forces(p) == [p EXCEPT !.components = SelectSeq(@, NotForce)]

\* The last step ran the components of a point, and left it with another
\* velocity than its components other than Force give it: a Force acted.
ForceActed ==
    /\ frame.last.name = "update_components"
    /\ ~VSame(frame.points[frame.last.i].velocity,
              update_components(without_forces(frame.last.before[1])).velocity)

\* C16 as stated: a point never holds more than one input-driven Force, and
\* after a frame whose mouse sample found the button up no Force changes a
\* point's velocity.
InputForcesOneShot ==
    /\ \A i \in 1..Len(frame.points) : ForceCount(frame.points[i]) <= 1
    /\ (~frame.mouse_down => ~ForceActed)

\* The button was up at the end of the previous frame and a Force attached
\* in an earlier frame has just changed the velocity of a point that also
\* carries Gravity and Friction.
InputForceOutlivesRelease ==
    /\ ~frame.mouse_down /\ ForceActed
    /\ HasComponent(frame.last.before[1], "Gravity")
    /\ HasComponent(frame.last.before[1], "Friction")
    /\ ForceCount(frame.last.before[1]) = 1

\* The point with the bounce of its Collision components replaced.
with_bounce(p, bounce) ==
    [p EXCEPT !.components =
        [c \in 1..Len(p.components) |->
            IF p.components[c].type = "Collision"
            THEN Collision_new(bounce, p.components[c].b) ELSE p.components[c]]]

IsCollision(comp) == comp.type = "Collision"

\* The Collision component attached to the point.
collision_of(p) == SelectSeq(p.components, IsCollision)[1]

PairVelocities(pair) == <<pair[1].velocity, pair[2].velocity>>

\* The bounce coefficients compared: the one the scene gives the points of
\* its shapes, Collision::new(0.5, 0.8), and full bounce.
Bounces == <<Half, One>>

\* The velocities on_collide leaves the pair with, for the Collision
\* component of `me` with the bounce given.
on_collide_velocities(me, other, bounce) ==
    PairVelocities(Collision_on_collide(collision_of(with_bounce(me, bounce)), me, other))

\* The velocities the collision loop leaves the pair with when the Collision
\* components of both points have the bounce given.
loop_velocities(point_i, point_j, bounce) ==
    PairVelocities(check_collision(with_bounce(point_i, bounce), with_bounce(point_j, bounce)))

\* The last step handled a detected pair of overlapping points that both
\* carry a Collision component, on which on_collide gives velocities that
\* depend on the bounce.
BouncingPairDetected ==
    /\ frame.last.name = "collide"
    /\ HasComponent(frame.last.before[1], "Collision")
    /\ HasComponent(frame.last.before[2], "Collision")
    /\ is_colliding_with(frame.last.before[1], frame.last.before[2])
    /\ on_collide_velocities(frame.last.before[1], frame.last.before[2], Bounces[1])
           # on_collide_velocities(frame.last.before[1], frame.last.before[2], Bounces[2])

\* C19 as stated: when the collision loop detects an overlapping pair on
\* which on_collide would act, the velocities the loop leaves the pair with
\* depend on the bounce given to Collision::new.
CollisionComponentInvoked ==
    BouncingPairDetected =>
        loop_velocities(frame.last.before[1], frame.last.before[2], Bounces[1])
            # loop_velocities(frame.last.before[1], frame.last.before[2], Bounces[2])

\* Such a pair of the scene, with the Collision components the scene gave
\* it, which the loop left with the velocities that it gives for every
\* bounce: those of the forced separation and of resolve_collision.
DetectedPairOnlyResolved ==
    /\ BouncingPairDetected
    /\ with_bounce(frame.last.before[1], Bounces[1]) = frame.last.before[1]
    /\ with_bounce(frame.last.before[2], Bounces[1]) = frame.last.before[2]
    /\ \A b \in 1..Len(Bounces) :
          loop_velocities(frame.last.before[1], frame.last.before[2], Bounces[b])
              = <<frame.points[frame.last.i].velocity, frame.points[frame.last.j].velocity>>
    /\ PairVelocities(frame.last.before)
          # <<frame.points[frame.last.i].velocity, frame.points[frame.last.j].velocity>>

\* ------------------------------------------- resolve_collision, again

\* C23 as stated: resolve_collision leaves both points exactly as they were
\* when the distance between the centres is at least radius1 + radius2, and
\* whenever it changes a point, is_colliding_with is true of the pair before
\* the call.
NoOverlapNoChange ==
    Did("resolve_collision") =>
        /\ FGe(Distance(SelfPre, OtherPre), FAdd(SelfPre.radius, OtherPre.radius))
              => (SelfPost = SelfPre /\ OtherPost = OtherPre)
        /\ (SelfPost # SelfPre \/ OtherPost # OtherPre)
              => is_colliding_with(SelfPre, OtherPre)

\* resolve_collision ran on a pair of which is_colliding_with is false, a
\* centre of which is not a number, and wrote to a point.
NonCollidingPairWritten ==
    /\ Did("resolve_collision")
    /\ ~is_colliding_with(SelfPre, OtherPre)
    /\ IsNaN(Distance(SelfPre, OtherPre))
    /\ (SelfPost # SelfPre \/ OtherPost # OtherPre)

\* velocity_along_normal of resolve_collision for the pair (a, b).
NormalVelocity(a, b) ==
    velocity_along_normal(a, b, FDiv(Delta(a, b).dx, Distance(a, b)),
                          FDiv(Delta(a, b).dy, Distance(a, b)))

\* C24, as the specification states it: when the "moving apart" test of
\* resolve_collision (velocity_along_normal > 0) holds for two overlapping,
\* non-coincident points of positive mass, the velocities are kept and every
\* free point is still moved by the positional correction.
SeparatingStillCorrected ==
    (Did("resolve_collision") /\ Overlapping(SelfPre, OtherPre)
        /\ Positive(SelfPre.mass) /\ Positive(OtherPre.mass)
        /\ ~(SelfPre.fixed /\ OtherPre.fixed)
        /\ moving_apart(NormalVelocity(SelfPre, OtherPre))) =>
        /\ VSame(SelfPost.velocity, SelfPre.velocity)
        /\ VSame(OtherPost.velocity, OtherPre.velocity)
        /\ (~SelfPre.fixed => ~VSame(SelfPost.position, SelfPre.position))
        /\ (~OtherPre.fixed => ~VSame(OtherPost.position, OtherPre.position))

\* C24, what the code does: the "moving apart" return comes before the
\* positional correction, and two free overlapping points stay where they were.
SeparatingPairNotCorrected ==
    /\ Did("resolve_collision") /\ Overlapping(SelfPre, OtherPre)
    /\ Positive(SelfPre.mass) /\ Positive(OtherPre.mass)
    /\ ~SelfPre.fixed /\ ~OtherPre.fixed
    /\ moving_apart(NormalVelocity(SelfPre, OtherPre))
    /\ SelfPost.position = SelfPre.position
    /\ OtherPost.position = OtherPre.position

\* --------------------------------------- Collision::on_collide, again

\* The bounce of the Collision component of point p.
BounceOf(p) ==
    p.components[CHOOSE k \in 1..Len(p.components) : p.components[k].type = "Collision"].a

\* (other.velocity - me.velocity) . n for the velocities of (a, b) and the
\* unit normal n from me to other of the pair (me, other).
RelativeNormalVelocity(a, b, me, other) ==
    relative_vel_dot_normal(a, b, FDiv(Delta(me, other).dx, Distance(me, other)),
                            FDiv(Delta(me, other).dy, Distance(me, other)))

\* The size of the velocities of a and b: the sum of their components in
\* absolute value.
VelocityScale(a, b) ==
    FAdd(FAdd(FAbs(a.velocity[1]), FAbs(a.velocity[2])),
         FAdd(FAbs(b.velocity[1]), FAbs(b.velocity[2])))

\* on_collide was called on two free points of equal positive mass that
\* overlap and approach each other: the call resolves the collision.
EqualMassCollisionResolved ==
    /\ Did("on_collide") /\ ~SelfPre.fixed /\ ~OtherPre.fixed
    /\ Positive(SelfPre.mass) /\ FEq(SelfPre.mass, OtherPre.mass)
    /\ Overlapping(SelfPre, OtherPre) /\ Approaching(SelfPre, OtherPre)

\* C25, as the specification states it: for two free points of equal mass,
\* on_collide with bounce b leaves a relative velocity along the normal of -b
\* times the one before the call, to within rounding, as the impulse formula
\* of resolve_collision with restitution b does.
OnCollideRestitution ==
    EqualMassCollisionResolved =>
        Near(RelativeNormalVelocity(SelfPost, OtherPost, SelfPre, OtherPre),
             FMul(FNeg(BounceOf(SelfPre)),
                  RelativeNormalVelocity(SelfPre, OtherPre, SelfPre, OtherPre)),
             FAdd(VelocityScale(SelfPre, OtherPre), VelocityScale(SelfPost, OtherPost)))

\* C25, what the code does: the impulse is not divided by 1/m1 + 1/m2 nor by
\* the mass, and the relative velocity along the normal after the call is
\* -(1 + 2b) times the one before, to within rounding.
OnCollideOvershoots ==
    /\ EqualMassCollisionResolved
    /\ Near(RelativeNormalVelocity(SelfPost, OtherPost, SelfPre, OtherPre),
            FMul(FNeg(FAdd(One, FMul(I(2), BounceOf(SelfPre)))),
                 RelativeNormalVelocity(SelfPre, OtherPre, SelfPre, OtherPre)),
            FAdd(VelocityScale(SelfPre, OtherPre), VelocityScale(SelfPost, OtherPost)))

\* The velocity of `me` after the impulse of on_collide alone:
\* me.velocity - impulse * n with impulse = -(1 + bounce) * relative_vel_dot_normal.
ImpulseVelocity(me, other) ==
    VSub(me.velocity,
         Vec2_scale(<<FDiv(Delta(me, other).dx, Distance(me, other)),
                      FDiv(Delta(me, other).dy, Distance(me, other))>>,
                    FMul(FNeg(FAdd(One, BounceOf(me))),
                         RelativeNormalVelocity(me, other, me, other))))

\* The centre of p is closer than p.radius + 5 to the slope whose two end
\* points are both q, the slope on_collide tests p against.
LiesOnSlope(p, q) == FLt(Distance(p, q), FAdd(p.radius, I(5)))

\* on_collide resolved an approaching overlap and left the free point `me`
\* lying on the slope made of `other`.
ResolvedOnSlope ==
    /\ Did("on_collide") /\ ~SelfPre.fixed
    /\ Overlapping(SelfPre, OtherPre) /\ Approaching(SelfPre, OtherPre)
    /\ LiesOnSlope(SelfPost, OtherPost)

\* C26, as the specification states it: in a resolved collision the point
\* lying on the slope gets the slope response, so its velocity is no longer
\* the one the impulse alone gives.
SlopeResponseApplied ==
    ResolvedOnSlope => ~VSame(SelfPost.velocity, ImpulseVelocity(SelfPre, OtherPre))

\* C26, what the code does: is_on_slope is false of the point (its slope has
\* zero length) and the velocity is the one the impulse alone gives.
SlopeResponseMissing ==
    /\ ResolvedOnSlope
    /\ ~is_on_slope(SelfPost, OtherPost, OtherPost)
    /\ SelfPost.velocity = ImpulseVelocity(SelfPre, OtherPre)

\* ------------------------------------------------ fresh shapes at rest

\* The factory result the shape was built from.
Constructed(s) ==
    CASE s.kind = "create_triangle" -> create_triangle(s.center, s.size_point, s.config)
      [] s.kind = "create_square" -> create_square(s.center, s.size_point, s.config)
      [] s.kind = "create_circle" ->
            create_circle(s.center, s.size_point, s.num_points, s.config)
      [] s.kind = "create_line" ->
            create_line(s.center, s.size_point, s.num_points, s.config)

\* The shape is as its factory returned it / has gone through one whole pass.
FreshShape == shape.pass = 0 /\ shape.k = 1 /\ ~shape.panicked

AfterFirstPass == shape.pass = 1 /\ shape.k = 1 /\ ~shape.panicked

\* C28, as stated: every constraint a factory returns has the distance
\* between its two points as rest_length, and the first pass over the
\* constraints leaves every point where the factory put it.
FreshShapeAtRest ==
    /\ FreshShape =>
          \A c \in 1..Len(shape.constraints) :
              shape.constraints[c].rest_length
                = Distance(shape.points[shape.constraints[c].point1],
                           shape.points[shape.constraints[c].point2])
    /\ AfterFirstPass =>
          \A i \in 1..Len(shape.points) :
              VSame(shape.points[i].position, Constructed(shape).points[i].position)

\* C28, what the code does: the two braces of create_square have rest length
\* radius * sqrt(2), shorter than the diagonals they span, and the first pass
\* has moved the corners of the square.
SquareMovedByFirstPass ==
    /\ AfterFirstPass /\ shape.kind = "create_square"
    /\ FLt(shape.constraints[5].rest_length,
           Distance(Constructed(shape).points[1], Constructed(shape).points[3]))
    /\ \A i \in 1..4 :
          ~VSame(shape.points[i].position, Constructed(shape).points[i].position)

\* ------------------------------------------------- update_components

\* What one update of a Gravity, Friction, Force or Collision component does
\* to the velocity v of a free Point or of a Quad.
UpdatedOnce(comp, v) ==
    CASE comp.type = "Gravity" -> <<v[1], FAdd(v[2], comp.a)>>
      [] comp.type = "Friction" -> <<FMul(v[1], comp.a), FMul(v[2], comp.a)>>
      [] comp.type = "Force" -> <<FAdd(v[1], comp.a), FAdd(v[2], comp.b)>>
      [] comp.type = "Collision" -> v

\* The velocity after the first n components of comps were each updated
\* once, in the order of the list.
RECURSIVE UpdatedInOrder(_, _, _)
UpdatedInOrder(comps, n, v) ==
    IF n = 0 THEN v ELSE UpdatedOnce(comps[n], UpdatedInOrder(comps, n - 1, v))

\* The lists of up to three components.
ComponentLists ==
    UNION { [1..n -> QuadComponents] : n \in 0..3 }

\* update_components on the Point p with the components comps added to it
\* keeps the list and everything but the velocity, and gives the velocity of
\* one update per component in order (none on a fixed point).
PointUpdatedInOrder(p, comps) ==
    /\ update_components(p).components = comps
    /\ update_components(p).position = p.position
    /\ update_components(p).force = p.force
    /\ update_components(p).velocity =
          IF p.fixed THEN p.velocity ELSE UpdatedInOrder(comps, Len(comps), p.velocity)

PointsUpdatedInOrder ==
    \A comps \in ComponentLists : \A fixed \in BOOLEAN : \A vel \in {V(5, 0), V(0, 3)} :
        PointUpdatedInOrder(
            add_components([Point_new(I(1), I(2), One, I(10))
                               EXCEPT !.velocity = vel, !.fixed = fixed], comps, 1),
            comps)

\* C29: update_components of a Quad and of a Point updates every component
\* once, in the order in which they were added, and leaves the component list
\* (and position and size) as it was.
ComponentsRunOnceInOrder ==
    /\ Did("update_components") =>
          /\ QuadPost.components = QuadPre.components
          /\ QuadPost.position = QuadPre.position /\ QuadPost.size = QuadPre.size
          /\ <<QuadPost.velocity_x, QuadPost.velocity_y>> =
                UpdatedInOrder(QuadPre.components, Len(QuadPre.components),
                               <<QuadPre.velocity_x, QuadPre.velocity_y>>)
    /\ PointsUpdatedInOrder

\* C29, reached: update_components ran on a Quad whose components are a
\* Gravity and then a Friction, for which the order shows in the result.
GravityThenFrictionRun ==
    /\ Did("update_components") /\ Len(QuadPre.components) = 2
    /\ QuadPre.components[1].type = "Gravity"
    /\ QuadPre.components[2].type = "Friction"
    /\ QuadPost.velocity_y = FMul(FAdd(QuadPre.velocity_y, I(1)), Half)
    /\ ~FSame(QuadPost.velocity_y, FAdd(FMul(QuadPre.velocity_y, Half), I(1)))

\* ---------------------------------------------- on_collide of two Quads

\* The centre of a Quad: position is its top-left corner.
QuadCentre(q) ==
    <<FAdd(q.position[1], FMul(q.size[1], Half)),
      FAdd(q.position[2], FMul(q.size[2], Half))>>

QuadCentreDistance(a, b) ==
    Hypot(FSub(QuadCentre(b)[1], QuadCentre(a)[1]),
          FSub(QuadCentre(b)[2], QuadCentre(a)[2]))

QuadPositionDistance(a, b) ==
    Hypot(FSub(b.position[1], a.position[1]), FSub(b.position[2], a.position[2]))

QuadMinDistance(a, b) == FMul(FAdd(a.size[1], b.size[1]), Half)

\* The other Quad of a two-Quad operation, before and after.
QuadOtherPre == pre[op.j]

QuadOtherPost == quads[op.j]

\* on_collide was called on two Quads at different positions with `me`
\* moving toward `other` along the line between the two positions, so that a
\* pair treated as overlapping is resolved.
QuadsClosingIn ==
    /\ Did("on_collide")
    /\ Positive(QuadPositionDistance(QuadPre, QuadOtherPre))
    /\ FLt(Dot(<<FSub(QuadOtherPre.velocity_x, QuadPre.velocity_x),
                 FSub(QuadOtherPre.velocity_y, QuadPre.velocity_y)>>,
               VSub(QuadOtherPre.position, QuadPre.position)), Zero)

\* C27, as the specification states it: on_collide resolves the pair exactly
\* when the distance between the centres of the two boxes is smaller than
\* (size1.x + size2.x) / 2.
QuadCollisionByCentreDistance ==
    QuadsClosingIn =>
        ((QuadPost # QuadPre \/ QuadOtherPost # QuadOtherPre)
            <=> FLt(QuadCentreDistance(QuadPre, QuadOtherPre),
                    QuadMinDistance(QuadPre, QuadOtherPre)))

\* What the code does: on_collide resolves the pair exactly when the distance
\* between the two position fields, the top-left corners, is smaller than
\* (size1.x + size2.x) / 2.
QuadCollisionByPositionDistance ==
    QuadsClosingIn =>
        ((QuadPost # QuadPre \/ QuadOtherPost # QuadOtherPre)
            <=> FLt(QuadPositionDistance(QuadPre, QuadOtherPre),
                    QuadMinDistance(QuadPre, QuadOtherPre)))

\* C27, what the code does: a narrow box lying inside a wide one, with the
\* centres closer than (size1.x + size2.x) / 2 and the corners further apart
\* than that, is left as it was.
QuadInsideNotResolved ==
    /\ QuadsClosingIn
    /\ Quad_is_colliding_with(QuadPre, QuadOtherPre)
    /\ FLt(QuadCentreDistance(QuadPre, QuadOtherPre), QuadMinDistance(QuadPre, QuadOtherPre))
    /\ FGe(QuadPositionDistance(QuadPre, QuadOtherPre), QuadMinDistance(QuadPre, QuadOtherPre))
    /\ QuadPost = QuadPre /\ QuadOtherPost = QuadOtherPre

\* ------------------------------------------------------- UI manager properties

\* The place of the pair with z-index z in a list of pairs; 0 when absent.
PlaceOf(pairs, z) == position(pairs, z, 1)

\* The pairs of a list other than the one with z-index z, in their order.
Without(pairs, z) == SelectSeq(pairs, LAMBDA pair : pair[1] # z)

PairsOf(pairs) == { pairs[i] : i \in 1..Len(pairs) }

\* C21: UiManager::draw calls element.draw on every open dropdown after all
\* the elements that are not open dropdowns, and within the open dropdowns
\* and within the others in ascending z-index; a draw that returns has drawn
\* every element once, and a draw that panics has stopped at a dropdown
\* whose selected_index is not an index of its options.
OpenDropdownsDrawnLast ==
    ui.op = "draw" =>
        /\ \A i \in 1..Len(ui.drawn) : \A j \in (i + 1)..Len(ui.drawn) :
              /\ ~(is_open_dropdown(ui.drawn[i][2]) /\ ~is_open_dropdown(ui.drawn[j][2]))
              /\ is_open_dropdown(ui.drawn[i][2]) = is_open_dropdown(ui.drawn[j][2])
                    => ui.drawn[i][1] <= ui.drawn[j][1]
        /\ PairsOf(ui.drawn) \subseteq PairsOf(ui.manager.elements)
        /\ ~ui.panicked =>
              /\ Len(ui.drawn) = Len(ui.manager.elements)
              /\ PairsOf(ui.drawn) = PairsOf(ui.manager.elements)
        /\ ui.panicked =>
              /\ ui.drawn # <<>>
              /\ ui.drawn[Len(ui.drawn)][2].type = "UiDropdown"
              /\ ui.drawn[Len(ui.drawn)][2].selected_index
                    >= ui.drawn[Len(ui.drawn)][2].options

\* C21 witness: a draw that returned, in which two open dropdowns that stand
\* in the Vec in descending z-index are drawn in ascending z-index, after an
\* element of higher z-index that is not an open dropdown.
OpenDropdownDrawnOverHigherZ ==
    /\ ui.op = "draw" /\ ~ui.panicked
    /\ \E i \in 1..Len(ui.drawn) : \E j \in (i + 1)..Len(ui.drawn) :
          \E k \in (j + 1)..Len(ui.drawn) :
              /\ ~is_open_dropdown(ui.drawn[i][2])
              /\ is_open_dropdown(ui.drawn[j][2])
              /\ is_open_dropdown(ui.drawn[k][2])
              /\ ui.drawn[j][1] < ui.drawn[k][1]
              /\ ui.drawn[k][1] < ui.drawn[i][1]
    /\ \E i \in 1..Len(ui.manager.elements) : \E j \in (i + 1)..Len(ui.manager.elements) :
          /\ is_open_dropdown(ui.manager.elements[i][2])
          /\ is_open_dropdown(ui.manager.elements[j][2])
          /\ ui.manager.elements[i][1] > ui.manager.elements[j][1]

\* The draw recorded in ui followed bring_to_front(z) for a z-index that an
\* element of the manager has, and returned.
DrawnAfterBringToFront ==
    /\ ui.op = "draw" /\ ui.after = "bring_to_front" /\ ~ui.panicked
    /\ PlaceOf(ui.before, ui.arg) # 0

\* The order UiManager::draw would have used before the last call.
DrawnBefore == UiManager_draw([ui.manager EXCEPT !.elements = ui.before])

\* C22: after bring_to_front(z) for an existing z-index, draw renders the
\* element with that z-index after every other element that is not an open
\* dropdown, and the other elements keep their relative order.
BroughtToFrontDrawnOnTop ==
    DrawnAfterBringToFront =>
        /\ \A i \in 1..Len(ui.drawn) :
              (ui.drawn[i][1] # ui.arg /\ ~is_open_dropdown(ui.drawn[i][2]))
                  => i < PlaceOf(ui.drawn, ui.arg)
        /\ Without(ui.drawn, ui.arg) = Without(DrawnBefore, ui.arg)

\* C22 witness: bring_to_front(z) moved the pair of an element that is not an
\* open dropdown to the end of the Vec, and the draw that follows renders the
\* elements in the order it had before the call, with an element that is not
\* an open dropdown after the one brought to front.
BringToFrontLeavesDrawOrder ==
    /\ DrawnAfterBringToFront
    /\ PlaceOf(ui.before, ui.arg) < Len(ui.before)
    /\ PlaceOf(ui.manager.elements, ui.arg) = Len(ui.manager.elements)
    /\ ui.drawn = DrawnBefore
    /\ \E i \in 1..Len(ui.drawn) :
          /\ ~is_open_dropdown(ui.drawn[i][2])
          /\ i > PlaceOf(ui.drawn, ui.arg)

\* The element added under a name holds z-index z in the manager.
HoldsZ(m, name, z) ==
    /\ \E k \in 1..Len(m.elements) : m.elements[k][2].name = name
    /\ \A k \in 1..Len(m.elements) :
          m.elements[k][2].name = name => m.elements[k][1] = z

\* C30: after any sequence of add_element, bring_to_front and update calls
\* the z-indices add_element returned are strictly increasing in call order,
\* every element holds the z-index it was given, and get_element(z) is the
\* element for which add_element returned z.
ZIndicesStable ==
    /\ \A i \in 1..Len(ui.added) : \A j \in (i + 1)..Len(ui.added) :
          ui.added[i][1] < ui.added[j][1]
    /\ \A i \in 1..Len(ui.added) :
          /\ HoldsZ(ui.manager, ui.added[i][2], ui.added[i][1])
          /\ UiManager_get_element(ui.manager, ui.added[i][1]).some
          /\ UiManager_get_element(ui.manager, ui.added[i][1]).element.name
                = ui.added[i][2]

\* C30 witness: three elements were added and an update has brought an open
\* dropdown to the end of the Vec, past an element added after it.
UpdateReorderedElements ==
    /\ Len(ui.added) = MaxElements
    /\ ui.op = "update"
    /\ ui.manager.elements # ui.before
    /\ \E i \in 1..Len(ui.manager.elements) : \E j \in (i + 1)..Len(ui.manager.elements) :
          /\ is_open_dropdown(ui.manager.elements[j][2])
          /\ ui.manager.elements[i][1] > ui.manager.elements[j][1]

====
